---- MODULE Spec2Model ----
(***************************************************************************)
(* Execution queue and dependency engine of todotracker (src/src/crud.py), *)
(* with the store behaviour it relies on (src/src/db.py).                  *)
(*                                                                         *)
(* The store is a pair of tables: todos (id -> row) and todo_dependencies  *)
(* (a set of rows).  Every crud function is an operator from the tables to *)
(* the tables it leaves behind; the actions apply them with inputs drawn   *)
(* from small sets.                                                        *)
(***************************************************************************)
EXTENDS Integers, Naturals, Sequences, FiniteSets, TLC

VARIABLES
    todos,   \* todos table: [id -> [status, queue, parent_id, task_size]], DOMAIN = ids of the rows
    deps,    \* todo_dependencies table: set of [id, todo_id, depends_on_id]
    ret,     \* the call that ran last: [op, id, arg, was, had, out]: its name, the todo
             \* id passed, its second argument, the queue value the call read on that
             \* todo, the status a status-only update_todo call read on it, and how
             \* it ended
    pc,      \* concurrent callers: position of each caller inside its call
    loc      \* concurrent callers: what each caller has read so far

vars == <<todos, deps, ret, pc, loc>>

----------------------------------------------------------------------------
\* Bounds of the model

MaxTasks == 3      \* SpecQueue: number of todos in the store
StoreTasks == 2    \* Spec: largest todo id the store hands out
MaxQueue == 2      \* Spec: largest queue value passed by a caller or handed out by add_to_queue
MaxCount == 2      \* largest count passed to execute_queue_next

Ids == 1..MaxTasks
StoreIds == 1..StoreTasks
AnyTasks == 3      \* SpecAny: number of todos in the store
MaxStale == 3      \* SpecAny: largest queue value found in the store
AnyIds == 1..AnyTasks
DepTasks == 3      \* SpecDeps: largest todo id the store hands out
MaxDeps == 2       \* SpecDeps: largest dependency row id the store hands out
DepIds == 1..DepTasks
NumCallers == 2    \* SpecDepRace, SpecQueueRace: number of concurrent callers
RaceTasks == 3     \* SpecDepRace, SpecQueueRace: number of todos in the store
RaceDeps == 2      \* SpecDepRace: largest dependency row id the store hands out
MaxCalls == 2      \* SpecQueueRace, SpecRetractFail, SpecRetractRace: queue calls made by each caller
Callers == 1..NumCallers
RaceIds == 1..RaceTasks
ReadyTasks == 3    \* SpecReady: number of todos in the store
ReadyDeps == 2     \* SpecReady: number of dependency rows in the store
ReadyIds == 1..ReadyTasks
StaleTasks == 2    \* SpecStale: number of todos in the store
StaleQueue == 2    \* SpecStale: largest queue value found in the store
StaleIds == 1..StaleTasks
LifeTasks == 2     \* SpecLifecycle: number of todos in the store
LifeDeps == 1      \* SpecLifecycle: number of dependency rows in the store
LifeIds == 1..LifeTasks
GqTasks == 2       \* SpecGetQueued: number of todos in the store
GqQueue == 2       \* SpecGetQueued: largest queue value found in the store
GqLimit == 1       \* SpecGetQueued: the positive limit passed
GqIds == 1..GqTasks
RetractTasks == 3  \* SpecRetractFail
RetractIds == 1..RetractTasks
TornTasks == 2     \* SpecRetractRace
TornIds == 1..TornTasks
TravTasks == 3     \* SpecTraverse
TravDeps == 2      \* SpecTraverse
TravIds == 1..TravTasks
BatchTasks == 2    \* SpecBatch
BatchLen == 2      \* SpecBatch: longest list passed to update_todos_batch
TripTasks == 3     \* SpecRoundTrip
TripIds == 1..TripTasks
ExecTasks == 3     \* SpecExecute
ExecQueue == 2     \* SpecExecute
ExecIds == 1..ExecTasks
BatchIds == 1..BatchTasks
EnvPaths == 3      \* SpecLazy: values TODOTRACKER_DB_PATH takes
MaxEngines == 2    \* SpecLazy: engines one process creates

----------------------------------------------------------------------------
\* db.py: TodoStatus, and the queue rule of crud.py

PENDING == "pending"
IN_PROGRESS == "in_progress"
COMPLETED == "completed"
CANCELLED == "cancelled"

TodoStatus == {PENDING, IN_PROGRESS, COMPLETED, CANCELLED}

QUEUE_RELEVANT_STATUSES == {PENDING, IN_PROGRESS}

is_queue_relevant(status) == status \in QUEUE_RELEVANT_STATUSES

\* the task_size scale of schemas.py
MinTaskSize == 1
MaxTaskSize == 5

\* a column that holds NULL (parent_id, task_size); an argument that was not passed
NoParent == 0
NoSize == 0
Unset == "unset"
UnsetQueue == -1
NoLimit == -1

Min(a, b) == IF a <= b THEN a ELSE b

Max(S) == CHOOSE x \in S : \A y \in S : y <= x

\* SQLite INTEGER PRIMARY KEY without AUTOINCREMENT: largest rowid + 1
next_id(rows) == IF rows = {} THEN 1 ELSE Max(rows) + 1

----------------------------------------------------------------------------
\* Queue helpers

\* rows selected by  filter(Todo.queue > 0, Todo.status.in_(QUEUE_RELEVANT_STATUSES))
queued_ids(T) ==
    {i \in DOMAIN T : T[i].queue > 0 /\ is_queue_relevant(T[i].status)}

\* order_by(Todo.queue.asc(), Todo.id.asc())
queue_before(T, a, b) ==
    \/ T[a].queue < T[b].queue
    \/ T[a].queue = T[b].queue /\ a < b

\* 1-based place of a selected row in that order
queue_rank(T, i) ==
    Cardinality({j \in queued_ids(T) : queue_before(T, j, i)}) + 1

\* the selected rows as a list of ids, in order
queued_list(T) ==
    [k \in 1..Cardinality(queued_ids(T)) |->
        CHOOSE i \in queued_ids(T) : queue_rank(T, i) = k]

\* the task_size filter: applied when either bound is passed, and then NULL is excluded
size_ok(T, i, min_size, max_size) ==
    \/ min_size = NoSize /\ max_size = NoSize
    \/ /\ T[i].task_size # NoSize
       /\ min_size # NoSize => T[i].task_size >= min_size
       /\ max_size # NoSize => T[i].task_size <= max_size

\* mutant: a todo without task_size passing the size filter
get_queued_todos_null_kept(T, limit, min_size, max_size) ==
    LET all == queued_list(T)
        kept == SelectSeq(all, LAMBDA i :
                    \/ T[i].task_size = NoSize
                    \/ size_ok(T, i, min_size, max_size))
    IN  IF limit < 0 THEN kept ELSE SubSeq(kept, 1, Min(limit, Len(kept)))

\* limit = NoLimit stands for limit=None; a negative limit reaches SQLite as
\* LIMIT with a negative value, which sets no upper bound either
get_queued_todos(T, limit, min_size, max_size) ==
    LET all == queued_list(T)
        kept == SelectSeq(all, LAMBDA i : size_ok(T, i, min_size, max_size))
    IN  IF limit < 0 THEN kept ELSE SubSeq(kept, 1, Min(limit, Len(kept)))

get_max_queue(T) ==
    IF queued_ids(T) = {} THEN 0
    ELSE Max({T[i].queue : i \in queued_ids(T)})

\* the rows normalize_queue assigns: those whose queue differs from expected
normalize_writes(T) ==
    LET queued == get_queued_todos(T, NoLimit, NoSize, NoSize)
    IN  {queued[k] : k \in {n \in 1..Len(queued) : T[queued[n]].queue # n}}

\* mutant: the rows renumbered in id order, whatever their queue values
normalize_queue_by_id(T) ==
    [i \in DOMAIN T |->
        IF i \in queued_ids(T)
        THEN [T[i] EXCEPT !.queue = Cardinality({j \in queued_ids(T) : j <= i})]
        ELSE T[i]]

\* mutant: the rows read in descending queue order
normalize_queue_descending(T) ==
    [i \in DOMAIN T |->
        IF i \in queued_ids(T)
        THEN [T[i] EXCEPT !.queue =
                Cardinality({j \in queued_ids(T) : queue_before(T, i, j)}) + 1]
        ELSE T[i]]

normalize_queue(T) ==
    LET queued == get_queued_todos(T, NoLimit, NoSize, NoSize)
    IN  [i \in DOMAIN T |->
            IF \E k \in 1..Len(queued) : queued[k] = i /\ T[i].queue # k
            THEN [T[i] EXCEPT !.queue = CHOOSE k \in 1..Len(queued) : queued[k] = i]
            ELSE T[i]]

----------------------------------------------------------------------------
\* Todo operations

\* mutant: create_todo storing the caller's queue value whatever the status
create_todo_queue_kept(T, status, queue, parent_id, task_size) ==
    LET new == next_id(DOMAIN T)
    IN  [i \in DOMAIN T \cup {new} |->
            IF i = new
            THEN [status |-> status, queue |-> queue,
                  parent_id |-> parent_id, task_size |-> task_size]
            ELSE T[i]]

create_todo(T, status, queue, parent_id, task_size) ==
    LET requested_queue == IF is_queue_relevant(status) THEN queue ELSE 0
        new == next_id(DOMAIN T)
    IN  [i \in DOMAIN T \cup {new} |->
            IF i = new
            THEN [status |-> status, queue |-> requested_queue,
                  parent_id |-> parent_id, task_size |-> task_size]
            ELSE T[i]]

\* mutant: update_todo without the rule that forces queue to 0
update_todo_queue_kept(T, todo_id, status, queue) ==
    IF todo_id \notin DOMAIN T THEN T
    ELSE
    LET s1 == IF status = Unset THEN T[todo_id].status ELSE status
        q1 == IF queue = UnsetQueue THEN T[todo_id].queue ELSE queue
        T2 == [T EXCEPT ![todo_id].status = s1, ![todo_id].queue = q1]
    IN  IF T[todo_id].queue > 0 /\ q1 = 0 THEN normalize_queue(T2) ELSE T2

\* mutant: update_todo clearing the queue value without the normalize_queue call
update_todo_unnormalized(T, todo_id, status, queue) ==
    IF todo_id \notin DOMAIN T THEN T
    ELSE
    LET s1 == IF status = Unset THEN T[todo_id].status ELSE status
        q1 == IF queue = UnsetQueue THEN T[todo_id].queue ELSE queue
        q2 == IF ~is_queue_relevant(s1) THEN 0 ELSE q1
    IN  [T EXCEPT ![todo_id].status = s1, ![todo_id].queue = q2]

\* mutant: a todo whose status returns to the active set put at the end of the queue
update_todo_rejoin(T, todo_id, status, queue) ==
    IF todo_id \notin DOMAIN T THEN T
    ELSE
    LET prev_queue == T[todo_id].queue
        s1 == IF status = Unset THEN T[todo_id].status ELSE status
        q1 == IF queue # UnsetQueue THEN queue
              ELSE IF ~is_queue_relevant(T[todo_id].status) /\ is_queue_relevant(s1)
              THEN get_max_queue(T) + 1
              ELSE T[todo_id].queue
        queue_cleared == ~is_queue_relevant(s1) /\ q1 # 0
        q2 == IF queue_cleared THEN 0 ELSE q1
        T2 == [T EXCEPT ![todo_id].status = s1, ![todo_id].queue = q2]
    IN  IF queue_cleared \/ (prev_queue > 0 /\ q2 = 0)
        THEN normalize_queue(T2)
        ELSE T2

\* update_todo with the fields status and queue; Unset / UnsetQueue = not passed
update_todo(T, todo_id, status, queue) ==
    IF todo_id \notin DOMAIN T THEN T
    ELSE
    LET prev_queue == T[todo_id].queue
        s1 == IF status = Unset THEN T[todo_id].status ELSE status
        q1 == IF queue = UnsetQueue THEN T[todo_id].queue ELSE queue
        queue_cleared == ~is_queue_relevant(s1) /\ q1 # 0
        q2 == IF queue_cleared THEN 0 ELSE q1
        T2 == [T EXCEPT ![todo_id].status = s1, ![todo_id].queue = q2]
    IN  IF queue_cleared \/ (prev_queue > 0 /\ q2 = 0)
        THEN normalize_queue(T2)
        ELSE T2

----------------------------------------------------------------------------
\* Queue operations

\* mutant: the new position taken from the number of queued rows
add_to_queue_count(T, todo_id) ==
    IF todo_id \notin DOMAIN T THEN T
    ELSE IF ~is_queue_relevant(T[todo_id].status)
    THEN IF T[todo_id].queue # 0
         THEN normalize_queue([T EXCEPT ![todo_id].queue = 0])
         ELSE T
    ELSE IF T[todo_id].queue > 0 THEN T
    ELSE [T EXCEPT ![todo_id].queue = Cardinality(queued_ids(T)) + 1]

\* mutant: the test for an already queued todo made before the status test
add_to_queue_queued_first(T, todo_id) ==
    IF todo_id \notin DOMAIN T THEN T
    ELSE IF T[todo_id].queue > 0 THEN T
    ELSE IF ~is_queue_relevant(T[todo_id].status) THEN T
    ELSE [T EXCEPT ![todo_id].queue = get_max_queue(T) + 1]

\* mutant: the test for an already queued todo left out
add_to_queue_again(T, todo_id) ==
    IF todo_id \notin DOMAIN T THEN T
    ELSE IF ~is_queue_relevant(T[todo_id].status)
    THEN IF T[todo_id].queue # 0
         THEN normalize_queue([T EXCEPT ![todo_id].queue = 0])
         ELSE T
    ELSE [T EXCEPT ![todo_id].queue = get_max_queue(T) + 1]

add_to_queue(T, todo_id) ==
    IF todo_id \notin DOMAIN T THEN T
    ELSE IF ~is_queue_relevant(T[todo_id].status)
    THEN IF T[todo_id].queue # 0
         THEN normalize_queue([T EXCEPT ![todo_id].queue = 0])
         ELSE T
    ELSE IF T[todo_id].queue > 0 THEN T
    ELSE [T EXCEPT ![todo_id].queue = get_max_queue(T) + 1]

\* mutant: remove_from_queue without the normalize_queue call
remove_from_queue_unnormalized(T, todo_id) ==
    IF todo_id \notin DOMAIN T THEN T
    ELSE [T EXCEPT ![todo_id].queue = 0]

remove_from_queue(T, todo_id) ==
    IF todo_id \notin DOMAIN T THEN T
    ELSE IF T[todo_id].queue = 0 THEN T
    ELSE normalize_queue([T EXCEPT ![todo_id].queue = 0])

\* rows a  filter(Todo.queue == pos, Todo.status.in_(...)).first()  may return
rows_at(T, pos) ==
    {i \in DOMAIN T : T[i].queue = pos /\ is_queue_relevant(T[i].status)}

\* mutant: the todo moved up without the previous row taking its position
move_queue_up_no_swap(T, todo_id) ==
    IF todo_id \notin DOMAIN T \/ T[todo_id].queue <= 1 THEN {T}
    ELSE IF ~is_queue_relevant(T[todo_id].status)
    THEN {normalize_queue([T EXCEPT ![todo_id].queue = 0])}
    ELSE IF rows_at(T, T[todo_id].queue - 1) = {}
    THEN {normalize_queue(T)}
    ELSE {[T EXCEPT ![todo_id].queue = T[todo_id].queue - 1]}

\* mutant: the todo moved into the free position above it without normalize_queue
move_queue_up_into_gap(T, todo_id) ==
    IF todo_id \notin DOMAIN T \/ T[todo_id].queue <= 1 THEN {T}
    ELSE IF ~is_queue_relevant(T[todo_id].status)
    THEN {normalize_queue([T EXCEPT ![todo_id].queue = 0])}
    ELSE
    LET current_pos == T[todo_id].queue
    IN  IF rows_at(T, current_pos - 1) = {}
        THEN {[T EXCEPT ![todo_id].queue = current_pos - 1]}
        ELSE {[T EXCEPT ![prev].queue = current_pos,
                        ![todo_id].queue = current_pos - 1]
                : prev \in rows_at(T, current_pos - 1)}

\* the stores move_queue_up may leave: one per row .first() may return
move_queue_up(T, todo_id) ==
    IF todo_id \notin DOMAIN T \/ T[todo_id].queue <= 1 THEN {T}
    ELSE IF ~is_queue_relevant(T[todo_id].status)
    THEN {normalize_queue([T EXCEPT ![todo_id].queue = 0])}
    ELSE
    LET current_pos == T[todo_id].queue
    IN  IF rows_at(T, current_pos - 1) = {}
        THEN {normalize_queue(T)}
        ELSE {[T EXCEPT ![prev].queue = current_pos,
                        ![todo_id].queue = current_pos - 1]
                : prev \in rows_at(T, current_pos - 1)}

\* mutant: the todo moved down without the next row taking its position
move_queue_down_no_swap(T, todo_id) ==
    IF todo_id \notin DOMAIN T \/ T[todo_id].queue = 0 THEN {T}
    ELSE IF ~is_queue_relevant(T[todo_id].status)
    THEN {normalize_queue([T EXCEPT ![todo_id].queue = 0])}
    ELSE IF rows_at(T, T[todo_id].queue + 1) = {}
    THEN {normalize_queue(T)}
    ELSE {[T EXCEPT ![todo_id].queue = T[todo_id].queue + 1]}

move_queue_down(T, todo_id) ==
    IF todo_id \notin DOMAIN T \/ T[todo_id].queue = 0 THEN {T}
    ELSE IF ~is_queue_relevant(T[todo_id].status)
    THEN {normalize_queue([T EXCEPT ![todo_id].queue = 0])}
    ELSE
    LET current_pos == T[todo_id].queue
    IN  IF rows_at(T, current_pos + 1) = {}
        THEN {normalize_queue(T)}
        ELSE {[T EXCEPT ![next_todo].queue = current_pos,
                        ![todo_id].queue = current_pos + 1]
                : next_todo \in rows_at(T, current_pos + 1)}

\* mutant: every queued todo marked, whatever count
execute_queue_next_marks_all(T, count, mark) ==
    IF mark
    THEN [i \in DOMAIN T |->
            IF i \in queued_ids(T) THEN [T[i] EXCEPT !.status = IN_PROGRESS] ELSE T[i]]
    ELSE T

\* execute_queue_next of the MCP server: the store it leaves
execute_queue_next(T, count, mark) ==
    LET queued == get_queued_todos(T, count, NoSize, NoSize)
        updated == {queued[k] : k \in {n \in 1..Len(queued) :
                        T[queued[n]].status \notin {COMPLETED, CANCELLED}}}
    IN  IF mark
        THEN [i \in DOMAIN T |->
                IF i \in updated THEN [T[i] EXCEPT !.status = IN_PROGRESS] ELSE T[i]]
        ELSE T

\* execute_queue_next: the reply.  marked_in_progress lists the ids assigned, in
\* the order of the first query; todos is the second query, made after the
\* commit, as <<id, status>> pairs.
execute_queue_next_reply(T, count, mark) ==
    LET queued == get_queued_todos(T, count, NoSize, NoSize)
        updated == SelectSeq(queued, LAMBDA i : T[i].status \notin {COMPLETED, CANCELLED})
        after == execute_queue_next(T, count, mark)
        fresh == get_queued_todos(after, count, NoSize, NoSize)
    IN  [count |-> Len(fresh),
         marked_in_progress |-> IF mark THEN updated ELSE <<>>,
         todos |-> [k \in 1..Len(fresh) |-> <<fresh[k], after[fresh[k]].status>>]]

----------------------------------------------------------------------------
\* Dependency operations

\* query(TodoDependency.depends_on_id).filter(TodoDependency.todo_id == current).all()
\* as a list, in row id order
next_deps(D, current) ==
    LET rows == {r \in D : r.todo_id = current}
        nth(k) == CHOOSE r \in rows : Cardinality({x \in rows : x.id < r.id}) = k - 1
    IN  [k \in 1..Cardinality(rows) |-> nth(k).depends_on_id]

\* the while loop of _would_create_cycle: stack.pop() takes the last element
RECURSIVE cycle_search(_, _, _, _)
cycle_search(D, stack, visited, target_id) ==
    IF stack = <<>> THEN FALSE
    ELSE
    LET current == stack[Len(stack)]
        rest == SubSeq(stack, 1, Len(stack) - 1)
    IN  IF current = target_id THEN TRUE
        ELSE IF current \in visited
        THEN cycle_search(D, rest, visited, target_id)
        ELSE cycle_search(D, rest \o next_deps(D, current),
                          visited \cup {current}, target_id)

\* mutant: the traversal started from the wrong end
would_create_cycle_reversed(D, start_id, target_id) ==
    cycle_search(D, <<target_id>>, {}, start_id)

would_create_cycle(D, start_id, target_id) ==
    cycle_search(D, <<start_id>>, {}, target_id)

\* the rows  filter(todo_id == ..., depends_on_id == ...)  selects
existing_deps(D, todo_id, depends_on_id) ==
    {r \in D : r.todo_id = todo_id /\ r.depends_on_id = depends_on_id}

\* mutant: create_dependency without the check for todo_id = depends_on_id
create_dependency_no_self_check(T, D, todo_id, depends_on_id) ==
    IF todo_id \notin DOMAIN T \/ depends_on_id \notin DOMAIN T
    THEN [deps |-> D, out |-> "None"]
    ELSE IF would_create_cycle(D, depends_on_id, todo_id)
    THEN [deps |-> D, out |-> "ValueError_cycle"]
    ELSE IF existing_deps(D, todo_id, depends_on_id) # {}
    THEN [deps |-> D, out |-> "existing"]
    ELSE [deps |-> D \cup {[id |-> next_id({r.id : r \in D}),
                            todo_id |-> todo_id,
                            depends_on_id |-> depends_on_id]},
          out |-> "created"]

\* mutant: create_dependency inserting its row before it looks at the todos
create_dependency_insert_first(T, D, todo_id, depends_on_id) ==
    IF todo_id = depends_on_id
    THEN [deps |-> D, out |-> "ValueError_self"]
    ELSE IF todo_id \notin DOMAIN T \/ depends_on_id \notin DOMAIN T
    THEN [deps |-> D \cup {[id |-> next_id({r.id : r \in D}),
                            todo_id |-> todo_id,
                            depends_on_id |-> depends_on_id]},
          out |-> "None"]
    ELSE IF would_create_cycle(D, depends_on_id, todo_id)
    THEN [deps |-> D, out |-> "ValueError_cycle"]
    ELSE IF existing_deps(D, todo_id, depends_on_id) # {}
    THEN [deps |-> D, out |-> "existing"]
    ELSE [deps |-> D \cup {[id |-> next_id({r.id : r \in D}),
                            todo_id |-> todo_id,
                            depends_on_id |-> depends_on_id]},
          out |-> "created"]

\* create_dependency: the table it leaves and how the call ended
create_dependency(T, D, todo_id, depends_on_id) ==
    IF todo_id = depends_on_id
    THEN [deps |-> D, out |-> "ValueError_self"]
    ELSE IF todo_id \notin DOMAIN T \/ depends_on_id \notin DOMAIN T
    THEN [deps |-> D, out |-> "None"]
    ELSE IF would_create_cycle(D, depends_on_id, todo_id)
    THEN [deps |-> D, out |-> "ValueError_cycle"]
    ELSE IF existing_deps(D, todo_id, depends_on_id) # {}
    THEN [deps |-> D, out |-> "existing"]
    ELSE [deps |-> D \cup {[id |-> next_id({r.id : r \in D}),
                            todo_id |-> todo_id,
                            depends_on_id |-> depends_on_id]},
          out |-> "created"]

\* mutant: every row of the same dependent deleted with the row named
delete_dependency_of_todo(D, dependency_id) ==
    {r \in D : \A x \in D : x.id = dependency_id => r.todo_id # x.todo_id}

delete_dependency(D, dependency_id) ==
    {r \in D : r.id # dependency_id}

\* the rows  filter(TodoDependency.todo_id == todo_id)  selects
get_dependencies(D, todo_id) == {r \in D : r.todo_id = todo_id}

\* mutant: a cancelled prerequisite counted as met
check_dependencies_met_retired(T, D, todo_id) ==
    \A dep \in get_dependencies(D, todo_id) :
        dep.depends_on_id \in DOMAIN T
            => T[dep.depends_on_id].status \in {COMPLETED, CANCELLED}

\* check_dependencies_met: False at the first row whose prerequisite todo exists
\* and is not completed, True when the loop finds none
check_dependencies_met(T, D, todo_id) ==
    LET dependencies == get_dependencies(D, todo_id)
    IN  IF dependencies = {} THEN TRUE
        ELSE ~\E dep \in dependencies :
                /\ dep.depends_on_id \in DOMAIN T
                /\ T[dep.depends_on_id].status # COMPLETED

\* the EXISTS of search_todos: a row of the todo joined to its prerequisite todo,
\* whose status is not completed
unmet_dep_exists(T, D, todo_id) ==
    \E r \in D : \E DependsOn \in DOMAIN T :
        /\ r.todo_id = todo_id
        /\ r.depends_on_id = DependsOn
        /\ T[DependsOn].status # COMPLETED

\* mutant: a row whose prerequisite todo is missing counted as unmet
search_todos_missing_unmet(T, D, dependency_status) ==
    LET unmet(i) == \E r \in D : /\ r.todo_id = i
                                  /\ \/ r.depends_on_id \notin DOMAIN T
                                     \/ T[r.depends_on_id].status # COMPLETED
    IN  IF dependency_status = "ready" THEN {i \in DOMAIN T : ~unmet(i)}
        ELSE IF dependency_status = "blocked" THEN {i \in DOMAIN T : unmet(i)}
        ELSE DOMAIN T

\* search_todos with the dependency_status filter only: the ids of the rows
\* returned ("any" and None filter nothing)
search_todos(T, D, dependency_status) ==
    IF dependency_status = "ready"
    THEN {i \in DOMAIN T : ~unmet_dep_exists(T, D, i)}
    ELSE IF dependency_status = "blocked"
    THEN {i \in DOMAIN T : unmet_dep_exists(T, D, i)}
    ELSE DOMAIN T

\* rows db.delete(db_todo) removes from todos: the row and, by the cascade of
\* Todo.children, its descendants
RECURSIVE delete_cascade(_, _)
delete_cascade(T, S) ==
    LET more == S \cup {i \in DOMAIN T : T[i].parent_id \in S}
    IN  IF more = S THEN S ELSE delete_cascade(T, more)

\* delete_todo: the todos table it leaves
delete_todo(T, todo_id) ==
    IF todo_id \notin DOMAIN T THEN T
    ELSE [i \in DOMAIN T \ delete_cascade(T, {todo_id}) |-> T[i]]

\* delete_todo: the todo_dependencies table it leaves; the cascade of
\* Todo.dependencies removes the rows whose todo_id is a deleted row
delete_todo_deps(T, D, todo_id) ==
    IF todo_id \notin DOMAIN T THEN D
    ELSE {r \in D : r.todo_id \notin delete_cascade(T, {todo_id})}

----------------------------------------------------------------------------
\* Calls made one at a time: each action is one crud call run to completion

NoCallers == UNCHANGED <<pc, loc>>

\* what a call returning Optional[Todo] hands back
todo_or_None(T, todo_id) == IF todo_id \in DOMAIN T THEN "todo" ELSE "None"

\* the queue value a call reads on the row it names (0 when there is no such row)
queue_read(T, todo_id) == IF todo_id \in DOMAIN T THEN T[todo_id].queue ELSE 0

\* the status a call reads on the row it names ("none" when there is no such row)
status_read(T, todo_id) == IF todo_id \in DOMAIN T THEN T[todo_id].status ELSE "none"

Called(op, id, arg, out) ==
    ret' = [op |-> op, id |-> id, arg |-> arg, was |-> queue_read(todos, id),
            had |-> "none", out |-> out]

\* cap: the call is left out where it would hand out a queue value above cap
AddToQueue(I, cap) ==
    \E i \in I :
        /\ \A j \in DOMAIN todos : add_to_queue(todos, i)[j].queue <= cap
        /\ todos' = add_to_queue(todos, i)
        /\ Called("add_to_queue", i, 0, todo_or_None(todos, i))
        /\ UNCHANGED deps /\ NoCallers

RemoveFromQueue(I) ==
    \E i \in I :
        /\ todos' = remove_from_queue(todos, i)
        /\ Called("remove_from_queue", i, 0, todo_or_None(todos, i))
        /\ UNCHANGED deps /\ NoCallers

MoveQueueUp(I) ==
    \E i \in I :
        /\ todos' \in move_queue_up(todos, i)
        /\ Called("move_queue_up", i, 0, todo_or_None(todos, i))
        /\ UNCHANGED deps /\ NoCallers

MoveQueueDown(I) ==
    \E i \in I :
        /\ todos' \in move_queue_down(todos, i)
        /\ Called("move_queue_down", i, 0, todo_or_None(todos, i))
        /\ UNCHANGED deps /\ NoCallers

\* normalize_queue called on its own; ret.arg is the number of rows it assigned
Normalize ==
    /\ todos' = normalize_queue(todos)
    /\ Called("normalize_queue", 0, Cardinality(normalize_writes(todos)), "None")
    /\ UNCHANGED deps /\ NoCallers

\* mutant: a status update that retires a todo deleting the dependency rows of that todo
UpdateStatus_drops_edges(I) ==
    \E i \in I, s \in TodoStatus :
        /\ todos' = update_todo(todos, i, s, UnsetQueue)
        /\ ret' = [op |-> "update_todo", id |-> i, arg |-> UnsetQueue,
                   was |-> queue_read(todos, i), had |-> status_read(todos, i),
                   out |-> todo_or_None(todos, i)]
        /\ deps' = IF is_queue_relevant(s) THEN deps
                   ELSE {r \in deps : r.todo_id # i /\ r.depends_on_id # i}
        /\ NoCallers

\* update_todo passing status only
UpdateStatus(I) ==
    \E i \in I, s \in TodoStatus :
        /\ todos' = update_todo(todos, i, s, UnsetQueue)
        /\ ret' = [op |-> "update_todo", id |-> i, arg |-> UnsetQueue,
                   was |-> queue_read(todos, i), had |-> status_read(todos, i),
                   out |-> todo_or_None(todos, i)]
        /\ UNCHANGED deps /\ NoCallers

\* create_todo passing status and queue
CreateTodo(I) ==
    \E s \in TodoStatus, q \in 0..MaxQueue :
        /\ next_id(DOMAIN todos) \in I
        /\ todos' = create_todo(todos, s, q, NoParent, NoSize)
        /\ Called("create_todo", next_id(DOMAIN todos), q, "todo")
        /\ UNCHANGED deps /\ NoCallers

\* update_todo passing status, queue or both
UpdateTodo(I) ==
    \E i \in I, s \in TodoStatus \cup {Unset}, q \in {UnsetQueue} \cup 0..MaxQueue :
        /\ todos' = update_todo(todos, i, s, q)
        /\ Called("update_todo", i, q, todo_or_None(todos, i))
        /\ UNCHANGED deps /\ NoCallers

DeleteTodo(I) ==
    \E i \in I :
        /\ todos' = delete_todo(todos, i)
        /\ deps' = delete_todo_deps(todos, deps, i)
        /\ Called("delete_todo", i, 0, IF i \in DOMAIN todos THEN "True" ELSE "False")
        /\ NoCallers

ExecuteQueueNext ==
    \E count \in 1..MaxCount, mark \in BOOLEAN :
        /\ todos' = execute_queue_next(todos, count, mark)
        /\ Called("execute_queue_next", 0, count, IF mark THEN "marked" ELSE "listed")
        /\ UNCHANGED deps /\ NoCallers

\* create_todo of a pending, unqueued, top-level todo
CreatePending(I) ==
    /\ next_id(DOMAIN todos) \in I
    /\ todos' = create_todo(todos, PENDING, 0, NoParent, NoSize)
    /\ Called("create_todo", next_id(DOMAIN todos), 0, "todo")
    /\ UNCHANGED deps /\ NoCallers

\* cap: the call is left out where it would hand out a row id above cap
CreateDependency(I, cap) ==
    \E a \in I, b \in I :
        LET r == create_dependency(todos, deps, a, b)
        IN  /\ \A row \in r.deps : row.id <= cap
            /\ deps' = r.deps
            /\ Called("create_dependency", a, b, r.out)
            /\ UNCHANGED todos /\ NoCallers

DeleteDependency(cap) ==
    \E d \in 1..cap :
        /\ deps' = delete_dependency(deps, d)
        /\ Called("delete_dependency", 0, d,
                  IF \E row \in deps : row.id = d THEN "True" ELSE "False")
        /\ UNCHANGED todos /\ NoCallers

CheckDependenciesMet(I) ==
    \E i \in I :
        /\ Called("check_dependencies_met", i, 0,
                  IF check_dependencies_met(todos, deps, i) THEN "True" ELSE "False")
        /\ UNCHANGED <<todos, deps>> /\ NoCallers

\* search_todos; ret.arg is the dependency_status passed, ret.out the set of
\* ids returned
SearchTodos ==
    \E dependency_status \in {"ready", "blocked", "any"} :
        /\ ret' = [op |-> "search_todos", id |-> 0, arg |-> dependency_status,
                   was |-> 0, had |-> "none",
                   out |-> search_todos(todos, deps, dependency_status)]
        /\ UNCHANGED <<todos, deps>> /\ NoCallers

\* the validation api_get_queued_todos makes before it queries: a bound passed
\* outside 1..5, or min_size above max_size, is answered with HTTP 400
api_get_queued_todos_rejects(min_size, max_size) ==
    \/ (min_size # NoSize /\ (min_size < 1 \/ min_size > 5))
    \/ (max_size # NoSize /\ (max_size < 1 \/ max_size > 5))
    \/ (min_size # NoSize /\ max_size # NoSize /\ min_size > max_size)

\* api_get_queued_todos; ret.arg holds <<limit, min_size, max_size>> and ret.out
\* the ids of the todos returned, in the order returned, or HTTPException_400
\* where the handler refuses the bounds.  The listing changes nothing, so a
\* later call on a store returns what a first call on it returns: the action is
\* taken once per store.
GetQueuedTodos(sizes, some_limit) ==
    \E limit \in {NoLimit, 0, some_limit}, min_size \in sizes, max_size \in sizes :
        /\ ret.op = "none"
        /\ IF api_get_queued_todos_rejects(min_size, max_size)
           THEN Called("get_queued_todos", 0, <<limit, min_size, max_size>>,
                       "HTTPException_400")
           ELSE Called("get_queued_todos", 0, <<limit, min_size, max_size>>,
                       get_queued_todos(todos, limit, min_size, max_size))
        /\ UNCHANGED <<todos, deps>> /\ NoCallers

NoCall == [op |-> "none", id |-> 0, arg |-> 0, was |-> 0, had |-> "none", out |-> "None"]

----------------------------------------------------------------------------
\* SpecQueue: MaxTasks todos, none of them queued, and the queue operations

InitQueue ==
    /\ todos \in [Ids -> [status : TodoStatus, queue : {0},
                          parent_id : {NoParent}, task_size : {NoSize}]]
    /\ deps = {}
    /\ ret = NoCall
    /\ pc = <<>>
    /\ loc = <<>>

NextQueue ==
    \/ AddToQueue(Ids, MaxTasks)
    \/ RemoveFromQueue(Ids)
    \/ MoveQueueUp(Ids)
    \/ MoveQueueDown(Ids)
    \/ Normalize
    \/ UpdateStatus(Ids)

SpecQueue == InitQueue /\ [][NextQueue]_vars

\* the queue values of the status-relevant queued rows are exactly 1..N, once each
Contiguous(T) ==
    /\ {T[i].queue : i \in queued_ids(T)} = 1..Cardinality(queued_ids(T))
    /\ \A i, j \in queued_ids(T) : T[i].queue = T[j].queue => i = j

----------------------------------------------------------------------------
\* Spec: an empty store, and the operations on todos and on the queue

Init ==
    /\ todos = <<>>
    /\ deps = {}
    /\ ret = NoCall
    /\ pc = <<>>
    /\ loc = <<>>

\* what the status column holds for a member of TodoStatus: SQLEnum(TodoStatus)
\* stores the name of the member
status_column(status) ==
    CASE status = PENDING -> "PENDING"
      [] status = IN_PROGRESS -> "IN_PROGRESS"
      [] status = COMPLETED -> "COMPLETED"
      [] status = CANCELLED -> "CANCELLED"

\* the two UPDATE statements init_db runs on the todos table it finds, both
\* written against the texts 'pending' and 'in_progress': queue = 0 on the rows
\* whose status is not one of them, ROW_NUMBER() over (queue, id) on the queued
\* rows whose status is
init_db_cleanup(T) ==
    LET active == {"pending", "in_progress"}
        cleared == [i \in DOMAIN T |->
                       IF status_column(T[i].status) \notin active /\ T[i].queue # 0
                       THEN [T[i] EXCEPT !.queue = 0] ELSE T[i]]
        ranked == {i \in DOMAIN T : /\ cleared[i].queue > 0
                                    /\ status_column(cleared[i].status) \in active}
    IN  [i \in DOMAIN T |->
            IF i \in ranked
            THEN [cleared[i] EXCEPT !.queue =
                    Cardinality({j \in ranked : queue_before(cleared, j, i)}) + 1]
            ELSE cleared[i]]

\* the server starting again on the store: init_db
InitDb ==
    /\ todos' = init_db_cleanup(todos)
    /\ Called("init_db", 0, 0, "None")
    /\ UNCHANGED deps /\ NoCallers

Next ==
    \/ InitDb
    \/ CreateTodo(StoreIds)
    \/ UpdateTodo(StoreIds)
    \/ DeleteTodo(StoreIds)
    \/ AddToQueue(StoreIds, MaxQueue)
    \/ RemoveFromQueue(StoreIds)
    \/ MoveQueueUp(StoreIds)
    \/ MoveQueueDown(StoreIds)
    \/ Normalize
    \/ ExecuteQueueNext

Spec == Init /\ [][Next]_vars

----------------------------------------------------------------------------
\* SpecDeps: DepTasks pending todos, no dependency, and the operations on the
\* dependency graph (with create_todo, which hands a deleted todo's id out again)

InitDeps ==
    /\ todos = [i \in DepIds |-> [status |-> PENDING, queue |-> 0,
                                  parent_id |-> NoParent, task_size |-> NoSize]]
    /\ deps = {}
    /\ ret = NoCall
    /\ pc = <<>>
    /\ loc = <<>>

NextDeps ==
    \/ CreateDependency(DepIds, MaxDeps)
    \/ DeleteDependency(MaxDeps)
    \/ DeleteTodo(DepIds)
    \/ CreatePending(DepIds)

SpecDeps == InitDeps /\ [][NextDeps]_vars

\* the depends-on edges, as pairs <<dependent, prerequisite>>
Edges(D) == {<<r.todo_id, r.depends_on_id>> : r \in D}

Compose(R, S) == {<<p[1][1], p[2][2]>> : p \in {x \in R \X S : x[1][2] = x[2][1]}}

\* pairs <<a, b>> with a directed path of one edge or more from a to b
RECURSIVE Paths(_)
Paths(R) ==
    LET more == R \cup Compose(R, R)
    IN  IF more = R THEN R ELSE Paths(more)

----------------------------------------------------------------------------
\* SpecAny: normalize_queue as a repair, on a store found in any condition
\* (gaps, duplicate positions, queue values left on retired todos)

InitAny ==
    /\ todos \in [AnyIds -> [status : TodoStatus, queue : 0..MaxStale,
                             parent_id : {NoParent}, task_size : {NoSize}]]
    /\ deps = {}
    /\ ret = NoCall
    /\ pc = <<>>
    /\ loc = <<>>

NextAny == Normalize

SpecAny == InitAny /\ [][NextAny]_vars

----------------------------------------------------------------------------
\* SpecStale: the queue operations on a store found in any condition (gaps,
\* duplicate positions, queue values left on retired todos)

InitStale ==
    /\ todos \in [StaleIds -> [status : TodoStatus, queue : 0..StaleQueue,
                               parent_id : {NoParent}, task_size : {NoSize}]]
    /\ deps = {}
    /\ ret = NoCall
    /\ pc = <<>>
    /\ loc = <<>>

NextStale ==
    \/ AddToQueue(StaleIds, StaleQueue + 1)
    \/ RemoveFromQueue(StaleIds)
    \/ MoveQueueUp(StaleIds)
    \/ MoveQueueDown(StaleIds)

SpecStale == InitStale /\ [][NextStale]_vars

----------------------------------------------------------------------------
\* SpecReady: the readiness query, on a store with todos of any status and an
\* acyclic set of dependency rows, rows whose prerequisite todo was deleted
\* (id ReadyTasks + 1) included

ReadyPairs == {p \in ReadyIds \X (1..(ReadyTasks + 1)) : p[1] # p[2]}

\* the rows of a set of edges, with row ids in the order the edges are listed
dep_rows(E) ==
    {[id |-> Cardinality({q \in E : q[1] < p[1] \/ (q[1] = p[1] /\ q[2] <= p[2])}),
      todo_id |-> p[1], depends_on_id |-> p[2]] : p \in E}

InitReady ==
    /\ todos \in [ReadyIds -> [status : TodoStatus, queue : {0},
                               parent_id : {NoParent}, task_size : {NoSize}]]
    /\ \E E \in SUBSET ReadyPairs :
            /\ Cardinality(E) <= ReadyDeps
            /\ \A p \in Paths(E) : p[1] # p[2]
            /\ deps = dep_rows(E)
    /\ ret = NoCall
    /\ pc = <<>>
    /\ loc = <<>>

NextReady == CheckDependenciesMet(ReadyIds)

SpecReady == InitReady /\ [][NextReady]_vars

\* the stores of SpecReady, searched
NextSearch == SearchTodos

SpecSearch == InitReady /\ [][NextSearch]_vars

----------------------------------------------------------------------------
\* SpecLifecycle: status updates and queue operations on a store that holds
\* dependency rows

LifePairs == {p \in LifeIds \X LifeIds : p[1] # p[2]}

InitLifecycle ==
    /\ todos \in [LifeIds -> [status : TodoStatus, queue : {0},
                              parent_id : {NoParent}, task_size : {NoSize}]]
    /\ \E E \in SUBSET LifePairs :
            /\ Cardinality(E) <= LifeDeps
            /\ \A p \in Paths(E) : p[1] # p[2]
            /\ deps = dep_rows(E)
    /\ ret = NoCall
    /\ pc = <<>>
    /\ loc = <<>>

NextLifecycle ==
    \/ UpdateStatus(LifeIds)
    \/ AddToQueue(LifeIds, LifeTasks)
    \/ RemoveFromQueue(LifeIds)
    \/ MoveQueueUp(LifeIds)
    \/ MoveQueueDown(LifeIds)

SpecLifecycle == InitLifecycle /\ [][NextLifecycle]_vars

----------------------------------------------------------------------------
\* SpecGetQueued: the queue listing, on a store found in any condition whose
\* todos have no task_size or one at either end of the scale

SizeChoices == {NoSize, MinTaskSize, MaxTaskSize}

InitGetQueued ==
    /\ todos \in [GqIds -> [status : TodoStatus, queue : 0..GqQueue,
                            parent_id : {NoParent}, task_size : SizeChoices]]
    /\ deps = {}
    /\ ret = NoCall
    /\ pc = <<>>
    /\ loc = <<>>

NextGetQueued == GetQueuedTodos(SizeChoices, GqLimit)

SpecGetQueued == InitGetQueued /\ [][NextGetQueued]_vars

----------------------------------------------------------------------------
\* Concurrent callers.  Each caller has its own Session on the shared store
\* (get_db), and a step of a caller is one statement sent to the store: a SELECT
\* reads what is committed at that moment, db.commit() writes the attributes the
\* caller assigned since its last commit.  The steps of different callers
\* interleave.  A Session keeps the rows it has loaded: a later query of the same
\* Session that returns such a row leaves the loaded values in place, until
\* db.commit() expires them (expire_on_commit is left at its default).
\* loc[c] is the call a caller is in:
\*   sess   the rows the Session holds, as row id -> queue value loaded
\*   upd    the assignments not yet committed, as row id -> attributes assigned
\*   after  where the call goes once db.commit() is done, or once
\*          normalize_queue is: "refresh" and "get_todo" are the SELECT a call
\*          ends with, db.refresh(todo) or get_todo(db, todo_id)
\*   calls  the number of queue calls the caller has made

Idle == [op |-> "none", id |-> 0, arg |-> 0, upd |-> <<>>, sess |-> <<>>,
         after |-> "return", calls |-> 0]

InitCallers ==
    /\ todos = [i \in RaceIds |-> [status |-> PENDING, queue |-> 0,
                                   parent_id |-> NoParent, task_size |-> NoSize]]
    /\ deps = {}
    /\ ret = NoCall
    /\ pc = [c \in Callers |-> "idle"]
    /\ loc = [c \in Callers |-> Idle]

\* the call returns or raises; ret.was is left at 0: the row a call names may
\* have been written by another caller since the call read it
Return(c, op, id, arg, out) ==
    /\ pc' = [pc EXCEPT ![c] = "idle"]
    /\ loc' = [loc EXCEPT ![c] = [Idle EXCEPT !.calls = loc[c].calls]]
    /\ ret' = [op |-> op, id |-> id, arg |-> arg, was |-> 0, had |-> "none",
               out |-> out]

\* a call a caller is in
Frame(c, op, id, arg, upd, sess, after) ==
    [op |-> op, id |-> id, arg |-> arg, upd |-> upd, sess |-> sess,
     after |-> after, calls |-> loc[c].calls]

\* a caller free to make one more queue call
MayCall(c) == pc[c] = "idle" /\ loc[c].calls < MaxCalls

\* the queue call started is counted
Counted(call) == [call EXCEPT !.calls = @ + 1]

\* a queue call that returns from its first statement
Answer(c, op, id, arg, out) ==
    /\ pc' = pc
    /\ loc' = [loc EXCEPT ![c].calls = @ + 1]
    /\ ret' = [op |-> op, id |-> id, arg |-> arg, was |-> 0, had |-> "none",
               out |-> out]

\* the call goes on to its next statement
Goto(c, label, call) ==
    /\ pc' = [pc EXCEPT ![c] = label]
    /\ loc' = [loc EXCEPT ![c] = call]
    /\ UNCHANGED ret

\* what loading one row puts in the Session
row_loaded(T, todo_id) == [j \in {todo_id} |-> T[j].queue]

\* what get_todo puts in the Session: the row and, through
\* joinedload(Todo.children), the rows of its children
loaded(T, todo_id) ==
    [j \in {todo_id} \cup {k \in DOMAIN T : T[k].parent_id = todo_id} |-> T[j].queue]

\* todo.queue = value on one row
assign_queue(todo_id, value) == [j \in {todo_id} |-> [queue |-> value]]

\* the UPDATEs a commit emits: upd maps row ids to the attributes assigned
commit_rows(T, upd) ==
    [i \in DOMAIN T |->
        IF i \notin DOMAIN upd THEN T[i]
        ELSE [T[i] EXCEPT
                !.status = IF "status" \in DOMAIN upd[i] THEN upd[i].status ELSE @,
                !.queue = IF "queue" \in DOMAIN upd[i] THEN upd[i].queue ELSE @]]

\* todo.queue as the loop of normalize_queue reads it on a listed row: the value
\* the Session holds where it had loaded the row before, else the value listed
session_queue(T, sess, i) == IF i \in DOMAIN sess THEN sess[i] ELSE T[i].queue

\* the assignments the loop of normalize_queue makes in a Session over the
\* listing it got from the store
normalize_assignments(T, sess) ==
    LET queued == get_queued_todos(T, NoLimit, NoSize, NoSize)
        changed == {k \in 1..Len(queued) : session_queue(T, sess, queued[k]) # k}
    IN  [i \in {queued[k] : k \in changed} |->
            [queue |-> CHOOSE k \in changed : queued[k] = i]]

\* prev.queue, todo.queue = ... on the row a query returned and the row of the
\* call: the commit writes the rows whose value differs from the one the
\* Session holds
swap_assignments(T, sess, todo_id, other, todo_queue, other_queue) ==
    LET assigned == [j \in {other, todo_id} |->
                        IF j = todo_id THEN todo_queue ELSE other_queue]
    IN  [j \in {k \in {other, todo_id} : assigned[k] # session_queue(T, sess, k)} |->
            [queue |-> assigned[j]]]

\* add_to_queue: get_todo and the tests on the row loaded
AddGetTodo(c) ==
    \E i \in DOMAIN todos :
        /\ MayCall(c)
        /\ IF ~is_queue_relevant(todos[i].status)
           THEN IF todos[i].queue # 0
                THEN Goto(c, "write",
                          Counted(Frame(c, "add_to_queue", i, 0, assign_queue(i, 0),
                                        loaded(todos, i),
                                        "normalize")))
                ELSE Answer(c, "add_to_queue", i, 0, "todo")
           ELSE IF todos[i].queue > 0
           THEN Answer(c, "add_to_queue", i, 0, "todo")
           ELSE Goto(c, "get_max",
                     Counted(Frame(c, "add_to_queue", i, 0, <<>>,
                                   loaded(todos, i),
                                   "refresh")))
        /\ UNCHANGED <<todos, deps>>

\* add_to_queue: todo.queue = get_max_queue(db) + 1
AddGetMax(c) ==
    /\ pc[c] = "get_max"
    /\ Goto(c, "write",
            [loc[c] EXCEPT !.upd = assign_queue(loc[c].id, get_max_queue(todos) + 1)])
    /\ UNCHANGED <<todos, deps>>

\* move_queue_up: get_todo and the tests on the row loaded
UpGetTodo(c) ==
    \E i \in DOMAIN todos :
        /\ MayCall(c)
        /\ IF todos[i].queue <= 1
           THEN Answer(c, "move_queue_up", i, 0, "todo")
           ELSE IF ~is_queue_relevant(todos[i].status)
           THEN Goto(c, "write",
                     Counted(Frame(c, "move_queue_up", i, 0, assign_queue(i, 0),
                                   loaded(todos, i),
                                   "normalize")))
           ELSE Goto(c, "get_prev",
                     Counted(Frame(c, "move_queue_up", i, 0, <<>>,
                                   loaded(todos, i),
                                   "refresh")))
        /\ UNCHANGED <<todos, deps>>

\* move_queue_up: the prev query and the swap assigned; current_pos is the
\* queue value get_todo loaded.  Where the query finds no row the call goes to
\* normalize_queue and ends with get_todo.
UpGetPrev(c) ==
    /\ pc[c] = "get_prev"
    /\ LET i == loc[c].id
           current_pos == loc[c].sess[i]
       IN  IF rows_at(todos, current_pos - 1) = {}
           THEN Goto(c, "normalize", [loc[c] EXCEPT !.after = "get_todo"])
           ELSE \E prev \in rows_at(todos, current_pos - 1) :
                    Goto(c, "write",
                         [loc[c] EXCEPT !.upd =
                            swap_assignments(todos, loc[c].sess, i, prev,
                                             current_pos - 1, current_pos)])
    /\ UNCHANGED <<todos, deps>>

\* move_queue_down: get_todo and the tests on the row loaded
DownGetTodo(c) ==
    \E i \in DOMAIN todos :
        /\ MayCall(c)
        /\ IF todos[i].queue = 0
           THEN Answer(c, "move_queue_down", i, 0, "todo")
           ELSE IF ~is_queue_relevant(todos[i].status)
           THEN Goto(c, "write",
                     Counted(Frame(c, "move_queue_down", i, 0, assign_queue(i, 0),
                                   loaded(todos, i),
                                   "normalize")))
           ELSE Goto(c, "get_next",
                     Counted(Frame(c, "move_queue_down", i, 0, <<>>,
                                   loaded(todos, i),
                                   "refresh")))
        /\ UNCHANGED <<todos, deps>>

\* move_queue_down: the next_todo query and the swap assigned
DownGetNext(c) ==
    /\ pc[c] = "get_next"
    /\ LET i == loc[c].id
           current_pos == loc[c].sess[i]
       IN  IF rows_at(todos, current_pos + 1) = {}
           THEN Goto(c, "normalize", [loc[c] EXCEPT !.after = "get_todo"])
           ELSE \E next_todo \in rows_at(todos, current_pos + 1) :
                    Goto(c, "write",
                         [loc[c] EXCEPT !.upd =
                            swap_assignments(todos, loc[c].sess, i, next_todo,
                                             current_pos + 1, current_pos)])
    /\ UNCHANGED <<todos, deps>>

\* normalize_queue up to its commit: the listing and the loop.  Where the loop
\* assigns nothing, normalize_queue returns without a commit and the call goes
\* on to the SELECT it ends with.
NormalizeRead(c) ==
    /\ pc[c] = "normalize"
    /\ LET upd == normalize_assignments(todos, loc[c].sess)
       IN  IF DOMAIN upd = {}
           THEN Goto(c, loc[c].after, loc[c])
           ELSE Goto(c, "write", [loc[c] EXCEPT !.upd = upd])
    /\ UNCHANGED <<todos, deps>>

\* the rows an UPDATE of the commit names that are no longer in the table
rows_gone(T, upd) == {i \in DOMAIN upd : DOMAIN upd[i] # {} /\ i \notin DOMAIN T}

\* db.commit() of the assignments made; the rows of the Session are expired.
\* An UPDATE that matches no row raises StaleDataError and nothing is written.
Write(c) ==
    /\ pc[c] = "write"
    /\ IF rows_gone(todos, loc[c].upd) # {}
       THEN /\ Return(c, loc[c].op, loc[c].id, 0, "StaleDataError")
            /\ UNCHANGED todos
       ELSE /\ todos' = commit_rows(todos, loc[c].upd)
            /\ Goto(c, loc[c].after,
                    [loc[c] EXCEPT !.upd = <<>>, !.sess = <<>>,
                                   !.after = IF @ \in {"normalize", "reload"}
                                             THEN "refresh" ELSE @])
    /\ UNCHANGED deps

\* db.refresh(todo): the SELECT of the row of the call; it raises where the row
\* is gone
Refresh(c) ==
    /\ pc[c] = "refresh"
    /\ Return(c, loc[c].op, loc[c].id, 0,
              IF loc[c].id \in DOMAIN todos THEN "todo" ELSE "InvalidRequestError")
    /\ UNCHANGED <<todos, deps>>

\* return get_todo(db, todo_id) of move_queue_up and move_queue_down
GetTodoAgain(c) ==
    /\ pc[c] = "get_todo"
    /\ Return(c, loc[c].op, loc[c].id, 0, todo_or_None(todos, loc[c].id))
    /\ UNCHANGED <<todos, deps>>

NextQueueRace ==
    \/ \E c \in Callers : AddGetTodo(c)
    \/ \E c \in Callers : AddGetMax(c)
    \/ \E c \in Callers : UpGetTodo(c)
    \/ \E c \in Callers : UpGetPrev(c)
    \/ \E c \in Callers : DownGetTodo(c)
    \/ \E c \in Callers : DownGetNext(c)
    \/ \E c \in Callers : NormalizeRead(c)
    \/ \E c \in Callers : Write(c)
    \/ \E c \in Callers : Refresh(c)
    \/ \E c \in Callers : GetTodoAgain(c)

\* the stores the sequential queue calls leave: the queued todos on 1..N
InitQueueRace ==
    /\ todos \in {T \in [RaceIds -> [status : {PENDING}, queue : 0..RaceTasks,
                                      parent_id : {NoParent}, task_size : {NoSize}]] :
                    Contiguous(T)}
    /\ deps = {}
    /\ ret = NoCall
    /\ pc = [c \in Callers |-> "idle"]
    /\ loc = [c \in Callers |-> Idle]

SpecQueueRace == InitQueueRace /\ [][NextQueueRace]_vars

\* A traversal is [stack, visited, target, expanded, result]: expanded lists
\* the ids whose rows were queried, result is "running", "True" or "False".

\* mutant: the loop without the test  if current in visited: continue
would_create_cycle_loop_revisits(D, t) ==
    IF t.stack = <<>> THEN [t EXCEPT !.result = "False"]
    ELSE
    LET current == t.stack[Len(t.stack)]
        rest == SubSeq(t.stack, 1, Len(t.stack) - 1)
    IN  IF current = t.target THEN [t EXCEPT !.stack = rest, !.result = "True"]
        ELSE [t EXCEPT !.stack = rest \o next_deps(D, current),
                       !.visited = t.visited \cup {current},
                       !.expanded = Append(t.expanded, current)]

\* one evaluation of  while stack:  and of the loop body
would_create_cycle_loop(D, t) ==
    IF t.stack = <<>> THEN [t EXCEPT !.result = "False"]
    ELSE
    LET current == t.stack[Len(t.stack)]
        rest == SubSeq(t.stack, 1, Len(t.stack) - 1)
    IN  IF current = t.target THEN [t EXCEPT !.stack = rest, !.result = "True"]
        ELSE IF current \in t.visited THEN [t EXCEPT !.stack = rest]
        ELSE [t EXCEPT !.stack = rest \o next_deps(D, current),
                       !.visited = t.visited \cup {current},
                       !.expanded = Append(t.expanded, current)]

\* the traversal _would_create_cycle(start_id, target_id) before its first
\* iteration
traversal(start_id, target_id) ==
    [stack |-> <<start_id>>, visited |-> {}, target |-> target_id,
     expanded |-> <<>>, result |-> "running"]

\* create_dependency: the self check and get_todo(db, todo_id); the Session
\* holds the row where there is one
DepGetTodo(c) ==
    \E a \in RaceIds, b \in RaceIds :
        /\ pc[c] = "idle"
        /\ IF a = b
           THEN Return(c, "create_dependency", a, b, "ValueError_self")
           ELSE Goto(c, "get_depends_on",
                     Frame(c, "create_dependency", a, b, <<>>,
                           IF a \in DOMAIN todos THEN loaded(todos, a) ELSE <<>>,
                           "return"))
        /\ UNCHANGED <<todos, deps>>

\* create_dependency: get_todo(db, depends_on_id) and the test of the two rows
DepGetDependsOn(c) ==
    /\ pc[c] = "get_depends_on"
    /\ IF loc[c].id \notin DOMAIN loc[c].sess \/ loc[c].arg \notin DOMAIN todos
       THEN Return(c, "create_dependency", loc[c].id, loc[c].arg, "None")
       ELSE Goto(c, "cycle_check",
                 [loc[c] EXCEPT !.upd = traversal(loc[c].arg, loc[c].id)])
    /\ UNCHANGED <<todos, deps>>

\* one iteration of the loop of _would_create_cycle: it queries the rows of one
\* todo id
DepCycleCheck(c) ==
    /\ pc[c] = "cycle_check"
    /\ LET t == would_create_cycle_loop(deps, loc[c].upd)
       IN  IF t.result = "running"
           THEN Goto(c, "cycle_check", [loc[c] EXCEPT !.upd = t])
           ELSE IF t.result = "True"
           THEN Return(c, "create_dependency", loc[c].id, loc[c].arg, "ValueError_cycle")
           ELSE Goto(c, "existing_check", [loc[c] EXCEPT !.upd = <<>>])
    /\ UNCHANGED <<todos, deps>>

\* the query for the identical edge
DepExistingCheck(c) ==
    /\ pc[c] = "existing_check"
    /\ IF existing_deps(deps, loc[c].id, loc[c].arg) # {}
       THEN Return(c, "create_dependency", loc[c].id, loc[c].arg, "existing")
       ELSE Goto(c, "insert", loc[c])
    /\ UNCHANGED <<todos, deps>>

\* db.add(dependency); db.commit(): loc[c].upd keeps the id the row was given
DepInsert(c) ==
    /\ pc[c] = "insert"
    /\ next_id({r.id : r \in deps}) <= RaceDeps
    /\ deps' = deps \cup {[id |-> next_id({r.id : r \in deps}),
                            todo_id |-> loc[c].id,
                            depends_on_id |-> loc[c].arg]}
    /\ Goto(c, "refresh_dependency",
            [loc[c] EXCEPT !.upd = <<next_id({r.id : r \in deps})>>])
    /\ UNCHANGED todos

\* db.refresh(dependency): the SELECT of the row inserted; it raises where the
\* row is gone
DepRefresh(c) ==
    /\ pc[c] = "refresh_dependency"
    /\ Return(c, "create_dependency", loc[c].id, loc[c].arg,
              IF \E row \in deps : row.id = loc[c].upd[1]
              THEN "created" ELSE "InvalidRequestError")
    /\ UNCHANGED <<todos, deps>>

\* delete_dependency: the query for the row
DepDeleteGet(c) ==
    \E d \in 1..RaceDeps :
        /\ pc[c] = "idle"
        /\ IF \E row \in deps : row.id = d
           THEN Goto(c, "delete",
                     Frame(c, "delete_dependency", 0, d, <<>>,
                           <<>>,
                           "return"))
           ELSE Return(c, "delete_dependency", 0, d, "False")
        /\ UNCHANGED <<todos, deps>>

\* delete_dependency: db.delete(dependency); db.commit()
DepDeleteCommit(c) ==
    /\ pc[c] = "delete"
    /\ deps' = delete_dependency(deps, loc[c].arg)
    /\ Return(c, "delete_dependency", 0, loc[c].arg, "True")
    /\ UNCHANGED todos

NextDepRace ==
    \/ \E c \in Callers : DepGetTodo(c)
    \/ \E c \in Callers : DepGetDependsOn(c)
    \/ \E c \in Callers : DepCycleCheck(c)
    \/ \E c \in Callers : DepExistingCheck(c)
    \/ \E c \in Callers : DepInsert(c)
    \/ \E c \in Callers : DepRefresh(c)
    \/ \E c \in Callers : DepDeleteGet(c)
    \/ \E c \in Callers : DepDeleteCommit(c)

SpecDepRace == InitCallers /\ [][NextDepRace]_vars

----------------------------------------------------------------------------
\* Calls that take a todo out of the queue, statement by statement.
\* remove_from_queue and update_todo commit the cleared queue value with their
\* own db.commit(); normalize_queue then reads the queue and commits the
\* renumbering with a second db.commit().  loc[c].arg keeps origin: the store
\* the call started from where a failure of the call is to be compared with it,
\* and 0 elsewhere.

\* the attributes of a row after the setattr loop of update_todo and the rule
\* that a retired todo has no queue position
update_todo_assigned(row, status, queue) ==
    LET s1 == IF status = Unset THEN row.status ELSE status
        q1 == IF queue = UnsetQueue THEN row.queue ELSE queue
    IN  [status |-> s1,
         queue |-> IF ~is_queue_relevant(s1) /\ q1 # 0 THEN 0 ELSE q1,
         queue_cleared |-> ~is_queue_relevant(s1) /\ q1 # 0]

\* the attributes among them that differ from the row loaded: those the UPDATE
\* of the commit sets
update_todo_changes(row, status, queue) ==
    LET new == update_todo_assigned(row, status, queue)
    IN  [f \in {g \in {"status", "queue"} : new[g] # row[g]} |-> new[f]]

\* the single caller of SpecRetractFail
Solo == {1}

\* every store the sequential queue calls produce: retired todos unqueued, the
\* queued todos on the positions 1..N
InitRetract(C, I) ==
    /\ todos \in {T \in [I -> [status : TodoStatus, queue : 0..Cardinality(I),
                                parent_id : {NoParent}, task_size : {NoSize}]] :
                    /\ Contiguous(T)
                    /\ \A i \in I : ~is_queue_relevant(T[i].status) => T[i].queue = 0}
    /\ deps = {}
    /\ ret = NoCall
    /\ pc = [c \in C |-> "idle"]
    /\ loc = [c \in C |-> Idle]

\* remove_from_queue: get_todo, the test on the row loaded and todo.queue = 0
RemoveGetTodo(c, origin) ==
    \E i \in DOMAIN todos :
        /\ MayCall(c)
        /\ IF todos[i].queue = 0
           THEN Answer(c, "remove_from_queue", i, 0, "todo")
           ELSE Goto(c, "write",
                     Counted(Frame(c, "remove_from_queue", i, origin, assign_queue(i, 0),
                                   loaded(todos, i),
                                   "normalize")))
        /\ UNCHANGED <<todos, deps>>

\* update_todo, passing status, queue=0 or both: get_todo and the assignments.
\* After its db.commit() the call goes to normalize_queue when it cleared the
\* queue value itself, reads the queue value back when the row was queued, and
\* goes to db.refresh(db_todo) otherwise.
UpdateGetTodo(c, origin) ==
    \E i \in DOMAIN todos, s \in TodoStatus \cup {Unset}, q \in {UnsetQueue, 0} :
        /\ MayCall(c)
        /\ Goto(c, "write",
                Counted(Frame(c, "update_todo", i, origin,
                              [j \in {i} |-> update_todo_changes(todos[i], s, q)],
                              loaded(todos, i),
                              IF update_todo_assigned(todos[i], s, q).queue_cleared
                              THEN "normalize"
                              ELSE IF todos[i].queue > 0 THEN "reload"
                              ELSE "refresh")))
        /\ UNCHANGED <<todos, deps>>

\* update_todo after its db.commit(): prev_queue > 0 and db_todo.queue == 0,
\* which loads the expired row again and raises where the row is gone
UpdateReload(c) ==
    /\ pc[c] = "reload"
    /\ IF loc[c].id \notin DOMAIN todos
       THEN Return(c, "update_todo", loc[c].id, 0, "ObjectDeletedError")
       ELSE Goto(c, IF todos[loc[c].id].queue = 0 THEN "normalize" ELSE "refresh",
                 [loc[c] EXCEPT !.sess = row_loaded(todos, loc[c].id)])
    /\ UNCHANGED <<todos, deps>>

\* the store failing under a call, at any of its statements, from get_todo to
\* the db.refresh the call ends with: the assignments not yet committed are
\* lost and the exception leaves the call.  At get_todo and at the first
\* db.commit() nothing has been written.
StoreFails(c) ==
    /\ \/ /\ MayCall(c)
          /\ \E i \in DOMAIN todos, op \in {"remove_from_queue", "update_todo"} :
                Answer(c, op, i, todos, "OperationalError")
       \/ /\ pc[c] # "idle"
          /\ Return(c, loc[c].op, loc[c].id, loc[c].arg, "OperationalError")
    /\ UNCHANGED <<todos, deps>>

\* another caller listing the queue: ret.out is the <<id, queue>> pairs it reads
ReadQueue(c) ==
    /\ MayCall(c)
    /\ LET queued == get_queued_todos(todos, NoLimit, NoSize, NoSize)
       IN  Answer(c, "get_queued_todos", 0, 0,
                  [k \in 1..Len(queued) |-> <<queued[k], todos[queued[k]].queue>>])
    /\ UNCHANGED <<todos, deps>>

InitRetractFail == InitRetract(Solo, RetractIds)

NextRetractFail ==
    \/ \E c \in Solo : RemoveGetTodo(c, todos)
    \/ \E c \in Solo : UpdateGetTodo(c, todos)
    \/ \E c \in Solo : UpdateReload(c)
    \/ \E c \in Solo : NormalizeRead(c)
    \/ \E c \in Solo : Write(c)
    \/ \E c \in Solo : Refresh(c)
    \/ \E c \in Solo : StoreFails(c)

SpecRetractFail == InitRetractFail /\ [][NextRetractFail]_vars

InitRetractRace == InitRetract(Callers, TornIds)

NextRetractRace ==
    \/ \E c \in Callers : RemoveGetTodo(c, 0)
    \/ \E c \in Callers : UpdateGetTodo(c, 0)
    \/ \E c \in Callers : UpdateReload(c)
    \/ \E c \in Callers : NormalizeRead(c)
    \/ \E c \in Callers : Write(c)
    \/ \E c \in Callers : Refresh(c)
    \/ \E c \in Callers : ReadQueue(c)

SpecRetractRace == InitRetractRace /\ [][NextRetractRace]_vars

----------------------------------------------------------------------------
\* SpecUpdateRemove: one update_todo or remove_from_queue call on every store
\* of RetractTasks todos in which the retired todos are unqueued; the positions
\* of the others may have gaps and duplicates, as create_todo and delete_todo
\* leave them.

InitUpdateRemove ==
    /\ todos \in {T \in [RetractIds -> [status : TodoStatus, queue : 0..RetractTasks,
                                         parent_id : {NoParent}, task_size : {NoSize}]] :
                    \A i \in RetractIds : ~is_queue_relevant(T[i].status) => T[i].queue = 0}
    /\ deps = {}
    /\ ret = NoCall
    /\ pc = <<>>
    /\ loc = <<>>

NextUpdateRemove ==
    /\ ret.op = "none"
    /\ \/ UpdateTodo(RetractIds)
       \/ RemoveFromQueue(RetractIds)

SpecUpdateRemove == InitUpdateRemove /\ [][NextUpdateRemove]_vars

----------------------------------------------------------------------------
\* The traversal of _would_create_cycle, one iteration of its while loop at a
\* time, over any table of dependency rows: rows that form a cycle, rows from a
\* todo to itself and rows naming a todo that is gone (id TravTasks + 1).

TravPairs == TravIds \X (1..(TravTasks + 1))

InitTraverse ==
    /\ todos = [i \in TravIds |-> [status |-> PENDING, queue |-> 0,
                                   parent_id |-> NoParent, task_size |-> NoSize]]
    /\ \E E \in SUBSET TravPairs :
            /\ Cardinality(E) <= TravDeps
            /\ deps = dep_rows(E)
    /\ ret = NoCall
    /\ pc = [c \in Solo |-> "idle"]
    /\ loc = [c \in Solo |-> Idle]

\* create_dependency up to the call _would_create_cycle(depends_on_id, todo_id)
TraverseBegin(c) ==
    \E todo_id \in TravIds, depends_on_id \in TravIds :
        /\ pc[c] = "idle"
        /\ ret.op = "none"
        /\ todo_id # depends_on_id
        /\ pc' = [pc EXCEPT ![c] = "loop"]
        /\ loc' = [loc EXCEPT ![c] =
                    [op |-> "create_dependency", id |-> todo_id, arg |-> depends_on_id,
                     upd |-> traversal(depends_on_id, todo_id),
                     sess |-> <<>>, after |-> "return", calls |-> 0]]
        /\ UNCHANGED <<todos, deps, ret>>

\* one iteration of the while loop; the call returns when the loop is left
TraverseStep(c) ==
    /\ pc[c] = "loop"
    /\ LET t == would_create_cycle_loop(deps, loc[c].upd)
       IN  IF t.result = "running"
           THEN /\ loc' = [loc EXCEPT ![c].upd = t]
                /\ UNCHANGED <<pc, ret>>
           ELSE Return(c, "_would_create_cycle", loc[c].arg, t.expanded, t.result)
    /\ UNCHANGED <<todos, deps>>

NextTraverse ==
    \/ \E c \in Solo : TraverseBegin(c)
    \/ \E c \in Solo : TraverseStep(c)

\* the loop is run by one thread that is never suspended for ever
SpecTraverse ==
    /\ InitTraverse
    /\ [][NextTraverse]_vars
    /\ \A c \in Solo : WF_vars(TraverseStep(c))

----------------------------------------------------------------------------
\* update_todos_batch.  An item is [todo_id, status, queue]; todo_id = NoTodoId
\* stands for an item without todo_id.  The result is the store left and the
\* two lists of the reply: the ids updated, and the errors as
\* <<index, todo_id, error>>.

NoTodoId == 0

\* a status text that names no member of TodoStatus
BadStatus == "done"

\* a queue value below the ge=0 of TodoUpdate.queue
BadQueue == -2

\* what the try block of an item raises before crud.update_todo is called,
\* "None" where it raises nothing: the test of todo_id, TodoStatus(...) on the
\* status passed, TodoUpdate(**update_data) on the queue passed
item_raises(item) ==
    IF item.todo_id = NoTodoId THEN "todo_id is required"
    ELSE IF item.status # Unset /\ item.status \notin TodoStatus THEN "ValueError"
    ELSE IF item.queue # UnsetQueue /\ item.queue < 0 THEN "ValidationError"
    ELSE "None"

\* the error reported for an item, "None" where the item is applied
item_error(T, item) ==
    IF item_raises(item) # "None" THEN item_raises(item)
    ELSE IF item.todo_id \notin DOMAIN T THEN "Todo not found"
    ELSE "None"

\* mutant: the loop left at the first item that fails
RECURSIVE update_todos_batch_stops(_, _, _, _, _)
update_todos_batch_stops(T, items, idx, updated, errors) ==
    IF idx >= Len(items) THEN [todos |-> T, updated |-> updated, errors |-> errors]
    ELSE LET item == items[idx + 1]
         IN  IF item_error(T, item) # "None"
             THEN [todos |-> T, updated |-> updated,
                   errors |-> Append(errors, <<idx, item.todo_id, item_error(T, item)>>)]
             ELSE update_todos_batch_stops(
                      update_todo(T, item.todo_id, item.status, item.queue),
                      items, idx + 1, Append(updated, item.todo_id), errors)

\* for idx, item in enumerate(items): from item idx on
RECURSIVE update_todos_batch(_, _, _, _, _)
update_todos_batch(T, items, idx, updated, errors) ==
    IF idx >= Len(items) THEN [todos |-> T, updated |-> updated, errors |-> errors]
    ELSE LET item == items[idx + 1]
         IN  IF item_error(T, item) # "None"
             THEN update_todos_batch(T, items, idx + 1, updated,
                                     Append(errors, <<idx, item.todo_id, item_error(T, item)>>))
             ELSE update_todos_batch(
                      update_todo(T, item.todo_id, item.status, item.queue),
                      items, idx + 1, Append(updated, item.todo_id), errors)

\* the field values an item passes: values update_todo takes, a status the
\* handler refuses and a queue value TodoUpdate refuses
BatchUpdates == {<<COMPLETED, UnsetQueue>>, <<PENDING, UnsetQueue>>, <<Unset, 0>>,
                 <<BadStatus, UnsetQueue>>, <<Unset, BadQueue>>}

BatchItems == {[todo_id |-> i, status |-> u[1], queue |-> u[2]] :
                  i \in {NoTodoId} \cup 1..(BatchTasks + 1), u \in BatchUpdates}

RECURSIVE ListsUpTo(_, _)
ListsUpTo(S, n) ==
    IF n = 0 THEN {<<>>}
    ELSE ListsUpTo(S, n - 1)
            \cup {Append(q, x) : q \in {r \in ListsUpTo(S, n - 1) : Len(r) = n - 1}, x \in S}

\* ret.was is the store the call started from
UpdateTodosBatch ==
    /\ ret.op = "none"
    /\ \E items \in ListsUpTo(BatchItems, BatchLen) :
        LET r == update_todos_batch(todos, items, 0, <<>>, <<>>)
        IN  /\ todos' = r.todos
            /\ ret' = [op |-> "update_todos_batch", id |-> 0, arg |-> items,
                       was |-> todos, had |-> "none",
                       out |-> [updated_count |-> Len(r.updated),
                                error_count |-> Len(r.errors),
                                todos |-> r.updated, errors |-> r.errors]]
    /\ UNCHANGED deps /\ NoCallers

\* the statuses of the stores SpecBatch starts from: one in the queue's set,
\* one outside it
BatchStatuses == {PENDING, COMPLETED}

\* stores the sequential queue calls produce
InitBatch ==
    /\ todos \in {T \in [BatchIds -> [status : BatchStatuses, queue : 0..BatchTasks,
                                       parent_id : {NoParent}, task_size : {NoSize}]] :
                    /\ Contiguous(T)
                    /\ \A i \in BatchIds : ~is_queue_relevant(T[i].status) => T[i].queue = 0}
    /\ deps = {}
    /\ ret = NoCall
    /\ pc = <<>>
    /\ loc = <<>>

NextBatch == UpdateTodosBatch

SpecBatch == InitBatch /\ [][NextBatch]_vars

----------------------------------------------------------------------------
\* Lazy initialisation of module db.  The globals engine, DB_PATH and
\* DATABASE_URL belong to the process that imported the module: loc[c] holds
\* them for process c, with the environment variable TODOTRACKER_DB_PATH of the
\* process (environ) and what find_project_database() finds (detected).
\* A path is <<kind, n>>; an engine is <<url, serial>>, serial counting the
\* create_engine calls of the process.

NoPath == <<"None", 0>>
NoEngine == <<NoPath, 0>>
DefaultPath == <<"./data/project.db", 0>>
DetectedPath == <<".todos/project.db", 0>>
EnvChoices == {NoPath} \cup {<<"TODOTRACKER_DB_PATH", n>> : n \in 1..EnvPaths}

get_database_path(g) ==
    IF g.environ # NoPath THEN g.environ
    ELSE IF g.detected # NoPath THEN g.detected
    ELSE DefaultPath

\* what the file system answers _init_engine: the directory is there or can be
\* made and the file opened ("ok"), db_dir.mkdir raises, or engine.connect()
\* raises
FsOutcomes == {"ok", "NotADirectoryError", "OperationalError"}

\* an exception leaving a call, in the place of the path the call returns
Raised(exception) == <<exception, 0>>

Exceptions == {Raised(e) : e \in {"NotADirectoryError", "OperationalError", "TypeError"}}

\* _init_engine: the globals as the statement that raises leaves them, or as
\* the last statement does.  DB_PATH is assigned before db_dir.mkdir;
\* DATABASE_URL and engine before engine.connect(); _SessionLocalMaker last.
init_engine(g, fs) ==
    IF g.engine # NoEngine THEN g
    ELSE LET path == get_database_path(g)
             at_mkdir == [g EXCEPT !.DB_PATH = path]
             at_connect == [at_mkdir EXCEPT !.DATABASE_URL = path,
                                            !.engine = <<path, g.created + 1>>,
                                            !.created = g.created + 1]
         IN  IF fs = "NotADirectoryError" THEN at_mkdir
             ELSE IF fs = "OperationalError" THEN at_connect
             ELSE [at_connect EXCEPT !.SessionLocalMaker = TRUE]

\* the exception that leaves _init_engine, "None" where it returns
init_engine_raises(g, fs) ==
    IF g.engine # NoEngine \/ fs = "ok" THEN "None" ELSE fs

get_db_path(g, fs) == IF g.DB_PATH = NoPath THEN init_engine(g, fs) ELSE g

get_db_path_raises(g, fs) ==
    IF g.DB_PATH = NoPath THEN init_engine_raises(g, fs) ELSE "None"

InitLazy ==
    /\ todos = <<>>
    /\ deps = {}
    /\ ret = NoCall
    /\ pc = [c \in Solo |-> "idle"]
    /\ \E e \in EnvChoices, d \in {NoPath, DetectedPath} :
            loc = [c \in Solo |-> [engine |-> NoEngine, DB_PATH |-> NoPath,
                                   DATABASE_URL |-> NoPath,
                                   SessionLocalMaker |-> FALSE, created |-> 0,
                                   environ |-> e, detected |-> d]]

\* ret.out is the path returned, or the exception raised
GetDbPath(c) ==
    \E fs \in FsOutcomes :
        /\ get_db_path(loc[c], fs).created <= MaxEngines
        /\ loc' = [loc EXCEPT ![c] = get_db_path(loc[c], fs)]
        /\ ret' = [op |-> "get_db_path", id |-> c, arg |-> 0, was |-> 0, had |-> "none",
                   out |-> IF get_db_path_raises(loc[c], fs) # "None"
                           THEN Raised(get_db_path_raises(loc[c], fs))
                           ELSE get_db_path(loc[c], fs).DB_PATH]
        /\ UNCHANGED <<todos, deps, pc>>

\* SessionLocal() without db_path: _init_engine(), then _SessionLocalMaker(),
\* which is a call of None where _init_engine left the maker unset.  ret.out is
\* the path of the session's database, or the exception raised.
SessionLocal(c) ==
    \E fs \in FsOutcomes :
        /\ init_engine(loc[c], fs).created <= MaxEngines
        /\ loc' = [loc EXCEPT ![c] = init_engine(loc[c], fs)]
        /\ ret' = [op |-> "SessionLocal", id |-> c, arg |-> 0, was |-> 0, had |-> "none",
                   out |-> IF init_engine_raises(loc[c], fs) # "None"
                           THEN Raised(init_engine_raises(loc[c], fs))
                           ELSE IF ~init_engine(loc[c], fs).SessionLocalMaker
                           THEN Raised("TypeError")
                           ELSE init_engine(loc[c], fs).DB_PATH]
        /\ UNCHANGED <<todos, deps, pc>>

\* the process setting or deleting os.environ["TODOTRACKER_DB_PATH"]
SetEnviron(c) ==
    \E e \in EnvChoices :
        /\ e # loc[c].environ
        /\ loc' = [loc EXCEPT ![c].environ = e]
        /\ ret' = [op |-> "environ", id |-> c, arg |-> 0, was |-> 0, had |-> "none",
                   out |-> e]
        /\ UNCHANGED <<todos, deps, pc>>

\* a .todos/project.db appearing or disappearing above the working directory
SetDetected(c) ==
    \E d \in {NoPath, DetectedPath} :
        /\ d # loc[c].detected
        /\ loc' = [loc EXCEPT ![c].detected = d]
        /\ ret' = [op |-> "detected", id |-> c, arg |-> 0, was |-> 0, had |-> "none",
                   out |-> d]
        /\ UNCHANGED <<todos, deps, pc>>

NextLazy ==
    \/ \E c \in Solo : GetDbPath(c)
    \/ \E c \in Solo : SessionLocal(c)
    \/ \E c \in Solo : SetEnviron(c)
    \/ \E c \in Solo : SetDetected(c)

SpecLazy == InitLazy /\ [][NextLazy]_vars

----------------------------------------------------------------------------
\* SpecRoundTrip: a client that moves a todo one way and then back.  The first
\* call records in ret.arg the store it found; the second call is made on the
\* same todo and keeps that record, so that ret.op names both calls.

InitRoundTrip ==
    /\ todos \in {T \in [TripIds -> [status : TodoStatus, queue : 0..TripTasks,
                                      parent_id : {NoParent}, task_size : {NoSize}]] :
                    /\ Contiguous(T)
                    /\ \A i \in TripIds : ~is_queue_relevant(T[i].status) => T[i].queue = 0}
    /\ deps = {}
    /\ ret = NoCall
    /\ pc = <<>>
    /\ loc = <<>>

\* move_queue_up as the first call of the client
UpFirst ==
    \E i \in TripIds :
        /\ ret.op = "none"
        /\ todos' \in move_queue_up(todos, i)
        /\ ret' = [op |-> "move_queue_up", id |-> i, arg |-> todos,
                   was |-> queue_read(todos, i), had |-> "none", out |-> "todo"]
        /\ UNCHANGED deps /\ NoCallers

\* move_queue_down as the first call of the client
DownFirst ==
    \E i \in TripIds :
        /\ ret.op = "none"
        /\ todos' \in move_queue_down(todos, i)
        /\ ret' = [op |-> "move_queue_down", id |-> i, arg |-> todos,
                   was |-> queue_read(todos, i), had |-> "none", out |-> "todo"]
        /\ UNCHANGED deps /\ NoCallers

\* move_queue_down on the todo the client has just moved up
DownSecond ==
    /\ ret.op = "move_queue_up"
    /\ ret.had = "none"
    /\ todos' \in move_queue_down(todos, ret.id)
    /\ ret' = [ret EXCEPT !.op = "move_queue_down", !.had = "move_queue_up"]
    /\ UNCHANGED deps /\ NoCallers

\* move_queue_up on the todo the client has just moved down
UpSecond ==
    /\ ret.op = "move_queue_down"
    /\ ret.had = "none"
    /\ todos' \in move_queue_up(todos, ret.id)
    /\ ret' = [ret EXCEPT !.op = "move_queue_up", !.had = "move_queue_down"]
    /\ UNCHANGED deps /\ NoCallers

NextRoundTrip ==
    \/ UpFirst
    \/ DownFirst
    \/ DownSecond
    \/ UpSecond

SpecRoundTrip == InitRoundTrip /\ [][NextRoundTrip]_vars

----------------------------------------------------------------------------
\* SpecExecute: execute_queue_next called on a store found in any condition.
\* ret.arg is <<count, mark_in_progress>>, ret.was the store the call started
\* from and ret.out the reply.

InitExecute ==
    /\ todos \in [ExecIds -> [status : TodoStatus, queue : 0..ExecQueue,
                              parent_id : {NoParent}, task_size : {NoSize}]]
    /\ deps = {}
    /\ ret = NoCall
    /\ pc = <<>>
    /\ loc = <<>>

ExecuteQueueNextReply ==
    /\ ret.op = "none"
    /\ \E count \in 1..MaxCount, mark \in BOOLEAN :
        /\ todos' = execute_queue_next(todos, count, mark)
        /\ ret' = [op |-> "execute_queue_next", id |-> 0, arg |-> <<count, mark>>,
                   was |-> todos, had |-> "none",
                   out |-> execute_queue_next_reply(todos, count, mark)]
    /\ UNCHANGED deps /\ NoCallers

NextExecute == ExecuteQueueNextReply

SpecExecute == InitExecute /\ [][NextExecute]_vars

----------------------------------------------------------------------------
\* Claims on the queue invariants

Retired == {COMPLETED, CANCELLED}

\* C1: from a store with no queued todo, after any sequence of add_to_queue,
\* remove_from_queue, move_queue_up, move_queue_down, normalize_queue and
\* status-changing update_todo calls, the queue values of the status-relevant
\* queued todos are exactly 1..N, each held once.
C1_Contiguity == Contiguous(todos)

\* a status update has just retired a queued todo and all the other todos are queued
C1_Witness ==
    /\ ret.op = "update_todo"
    /\ ret.was > 0
    /\ todos[ret.id].status \in Retired
    /\ queued_ids(todos) = DOMAIN todos \ {ret.id}

\* C2: after any sequence of the outward operations, create_todo with a queue
\* value, update_todo writing queue and delete_todo included, the status-relevant
\* queued todos hold the contiguous positions 1..N.
C2_ContiguousAlways ==
    LET Q == queued_ids(todos)
    IN  /\ \A k \in 1..Cardinality(Q) : \E i \in Q : todos[i].queue = k
        /\ \A i, j \in Q : i # j => todos[i].queue # todos[j].queue

\* C3: every todo whose status is completed or cancelled has queue = 0.
C3_RetiredUnqueued ==
    \A i \in DOMAIN todos : todos[i].status \in Retired => todos[i].queue = 0

\* an update_todo that passed a positive queue value has just run on a todo that
\* was queued, and left it retired
C3_Witness ==
    /\ ret.op = "update_todo"
    /\ ret.was > 0
    /\ ret.arg > 0
    /\ ret.id \in DOMAIN todos
    /\ todos[ret.id].status \in Retired

\* C7: once every concurrent add_to_queue, move_queue_up and move_queue_down call
\* has completed, the status-relevant queued todos hold exactly 1..N, with no
\* gap and no duplicate.
C7_ConvergedWhenIdle ==
    (\A c \in Callers : pc[c] = "idle")
        => LET Q == queued_ids(todos)
           IN  {todos[i].queue : i \in Q} = 1..Cardinality(Q)

\* C8: when update_todo moves a queued todo from pending / in_progress to
\* completed / cancelled, its queue becomes 0 and the other status-relevant
\* queued todos are renumbered 1..N-1 in their previous relative order.
C8_RetireRenumbers ==
    [][(/\ ret'.op = "update_todo"
        /\ ret'.id \in DOMAIN todos
        /\ todos[ret'.id].queue > 0
        /\ todos[ret'.id].status \in QUEUE_RELEVANT_STATUSES
        /\ todos'[ret'.id].status \in Retired)
       => LET rest == {i \in DOMAIN todos :
                        /\ i # ret'.id
                        /\ todos[i].queue > 0
                        /\ todos[i].status \in QUEUE_RELEVANT_STATUSES}
          IN  /\ todos'[ret'.id].queue = 0
              /\ \A i \in DOMAIN todos \ {ret'.id} : todos'[i].status = todos[i].status
              /\ \A i \in DOMAIN todos \ rest : i # ret'.id => todos'[i].queue = todos[i].queue
              /\ {todos'[i].queue : i \in rest} = 1..Cardinality(rest)
              /\ \A i, j \in rest :
                    todos[i].queue < todos[j].queue => todos'[i].queue < todos'[j].queue]_vars

\* the scenario A=1, B=2, C=3: B has just been completed and A=1, C=2, B=0
C8_Witness ==
    /\ ret.op = "update_todo"
    /\ ret.id = 2
    /\ ret.was = 2
    /\ todos[2].status = COMPLETED /\ todos[2].queue = 0
    /\ todos[1].queue = 1 /\ todos[3].queue = 2

\* C9: from any store, normalize_queue gives the status-relevant queued todos
\* the positions 1..N in the order (old queue ascending, id ascending), assigns
\* only the rows whose value was not already right, and changes no other row.
C9_NormalizeRenumbers ==
    [][ret'.op = "normalize_queue"
       => LET Q == {i \in DOMAIN todos :
                      todos[i].queue > 0 /\ todos[i].status \in QUEUE_RELEVANT_STATUSES}
              ahead(i) == {j \in Q : \/ todos[j].queue < todos[i].queue
                                     \/ (todos[j].queue = todos[i].queue /\ j < i)}
          IN  /\ DOMAIN todos' = DOMAIN todos
              /\ \A i \in DOMAIN todos \ Q : todos'[i] = todos[i]
              /\ \A i \in Q :
                    todos'[i] = [todos[i] EXCEPT !.queue = Cardinality(ahead(i)) + 1]
              /\ normalize_writes(todos)
                    = {i \in DOMAIN todos : todos'[i].queue # todos[i].queue}]_vars

\* normalize_queue has just repaired a store: it assigned two rows or more, a
\* retired todo still carries its stale queue value, and the rest is 1..N
C9_Witness ==
    /\ ret.op = "normalize_queue"
    /\ ret.arg >= 2
    /\ \E i \in DOMAIN todos : todos[i].status \in Retired /\ todos[i].queue > 0
    /\ Contiguous(todos)

\* C10: a second normalize_queue call right after a first changes no todo:
\* in the store a normalize_queue call leaves, normalize_queue finds no row to assign.
C10_NormalizeIdempotent ==
    ret.op = "normalize_queue"
        => normalize_queue(todos) = todos /\ normalize_writes(todos) = {}

\* normalize_queue has just run and assigned nothing, on a store with two queued
\* todos or more and a stale queue value on a retired one: what a second call leaves
C10_Witness ==
    /\ ret.op = "normalize_queue"
    /\ ret.arg = 0
    /\ Cardinality(queued_ids(todos)) >= 2
    /\ \E i \in DOMAIN todos : todos[i].queue > Cardinality(queued_ids(todos))

----------------------------------------------------------------------------
\* Claims on the dependency graph

\* C4: from an empty edge set, after any sequence of create_dependency,
\* delete_dependency and delete_todo calls run one at a time, no todo id is
\* reachable from itself along depends-on edges.
C4_Acyclic == \A p \in Paths(Edges(deps)) : p[1] # p[2]

\* a call that would have closed a cycle of three edges has just been refused
C4_Witness ==
    /\ ret.op = "create_dependency"
    /\ ret.out = "ValueError_cycle"
    /\ <<ret.arg, ret.id>> \in Paths(Edges(deps)) \ Edges(deps)

\* C5: when create_dependency(X, Y) and create_dependency(Y, X) run concurrently,
\* each with its cycle check and its insert as separate steps on the shared
\* store, at most one of the two edges is ever written (the graph stays acyclic).
C5_OneOfTwoEdges ==
    \A x \in RaceIds, y \in RaceIds :
        ~(<<x, y>> \in Edges(deps) /\ <<y, x>> \in Edges(deps))

\* C6: for two distinct existing todos, create_dependency(dependent, prerequisite)
\* ends with the cycle error exactly when a directed depends-on path from
\* prerequisite to dependent is already stored, and then it leaves the
\* dependency table as it was.
C6_CycleErrorIff ==
    [][(/\ ret'.op = "create_dependency"
        /\ ret'.id # ret'.arg
        /\ ret'.id \in DOMAIN todos
        /\ ret'.arg \in DOMAIN todos)
       => /\ (ret'.out = "ValueError_cycle")
                <=> (<<ret'.arg, ret'.id>> \in Paths(Edges(deps)))
          /\ ret'.out = "ValueError_cycle" => deps' = deps]_vars

\* an edge closing a two-edge path into a cycle has just been refused, with the
\* two rows of the path still the whole table
C6_Witness ==
    /\ ret.op = "create_dependency"
    /\ ret.out = "ValueError_cycle"
    /\ <<ret.arg, ret.id>> \notin Edges(deps)
    /\ Cardinality(deps) = 2

----------------------------------------------------------------------------
\* Claims on deleting a todo

\* C11: after delete_todo(t) has deleted t, no row of the dependency table
\* references t, neither as the dependent (todo_id) nor as the prerequisite
\* (depends_on_id).
C11_DeleteRemovesEdges ==
    (ret.op = "delete_todo" /\ ret.out = "True")
        => \A r \in deps : r.todo_id # ret.id /\ r.depends_on_id # ret.id

\* C12: delete_todo on a status-relevant todo at position p of a contiguous
\* queue 1..N leaves the remaining status-relevant queued todos at 1..N-1, in
\* their previous relative order.
C12_DeleteRenumbers ==
    [][(/\ ret'.op = "delete_todo"
        /\ ret'.out = "True"
        /\ ret'.id \in queued_ids(todos)
        /\ Contiguous(todos))
       => LET rest == queued_ids(todos) \ {ret'.id}
          IN  /\ rest \subseteq DOMAIN todos'
              /\ {todos'[i].queue : i \in rest} = 1..Cardinality(rest)
              /\ \A i, j \in rest :
                    todos[i].queue < todos[j].queue => todos'[i].queue < todos'[j].queue]_vars

----------------------------------------------------------------------------
\* Claims on readiness

\* C13: check_dependencies_met(t) is true exactly when t has no prerequisite row
\* or every prerequisite todo of t is completed; a prerequisite todo that is
\* pending, in_progress or cancelled makes t blocked.
C13_ReadyIff ==
    ret.op = "check_dependencies_met"
        => LET prerequisites == {r.depends_on_id : r \in {x \in deps : x.todo_id = ret.id}}
               tasks == prerequisites \cap DOMAIN todos
           IN  /\ (ret.out = "True")
                     <=> \/ prerequisites = {}
                         \/ \A p \in tasks : todos[p].status = COMPLETED
               /\ (\E p \in tasks : todos[p].status \in {PENDING, IN_PROGRESS, CANCELLED})
                     => ret.out = "False"

\* a todo with one completed and one cancelled prerequisite has just been found blocked
C13_Witness ==
    /\ ret.op = "check_dependencies_met"
    /\ ret.out = "False"
    /\ \E r1, r2 \in deps :
            /\ r1.todo_id = ret.id /\ r2.todo_id = ret.id
            /\ r1.depends_on_id \in DOMAIN todos /\ r2.depends_on_id \in DOMAIN todos
            /\ todos[r1.depends_on_id].status = COMPLETED
            /\ todos[r2.depends_on_id].status = CANCELLED

----------------------------------------------------------------------------
\* Claims on create_dependency

\* C14: create_dependency called with a (dependent, prerequisite) pair that is
\* already stored returns the existing row, raises no error, and leaves exactly
\* one row for the pair.
C14_ExistingEdgeReturned ==
    [][(/\ ret'.op = "create_dependency"
        /\ existing_deps(deps, ret'.id, ret'.arg) # {})
       => /\ ret'.out = "existing"
          /\ Cardinality(existing_deps(deps', ret'.id, ret'.arg)) = 1]_vars

\* C15: create_dependency(X, X) ends with the invalid-argument error for every
\* id X, whether a todo X exists or not, and writes no row; no row of the
\* dependency table ever has todo_id = depends_on_id.
C15_SelfEdgeRefused ==
    [][/\ (ret'.op = "create_dependency" /\ ret'.id = ret'.arg)
            => (ret'.out = "ValueError_self" /\ deps' = deps)
       /\ \A r \in deps' : r.todo_id # r.depends_on_id]_vars

\* create_dependency(X, X) has just been refused for an X that names no todo,
\* with rows in the table
C15_Witness ==
    /\ ret.op = "create_dependency"
    /\ ret.id = ret.arg
    /\ ret.out = "ValueError_self"
    /\ ret.id \notin DOMAIN todos
    /\ deps # {}

\* C16 as stated: create_dependency ends with the not-found outcome whenever
\* either id names no todo, and then writes no row and changes nothing else.
C16_NotFoundWhenever ==
    [][(/\ ret'.op = "create_dependency"
        /\ (ret'.id \notin DOMAIN todos \/ ret'.arg \notin DOMAIN todos))
       => (ret'.out = "None" /\ deps' = deps /\ todos' = todos)]_vars

\* C16, amended: create_dependency called with two different ids ends with the
\* not-found outcome whenever either id names no todo, and then writes no row
\* and changes nothing else (with equal ids the invalid-argument error comes first).
C16_NotFoundDistinct ==
    [][(/\ ret'.op = "create_dependency"
        /\ ret'.id # ret'.arg
        /\ (ret'.id \notin DOMAIN todos \/ ret'.arg \notin DOMAIN todos))
       => (ret'.out = "None" /\ deps' = deps /\ todos' = todos)]_vars

\* a call naming a deleted dependent and an existing prerequisite has just ended
\* not-found, with a row in the table
C16_Witness ==
    /\ ret.op = "create_dependency"
    /\ ret.out = "None"
    /\ ret.id \notin DOMAIN todos
    /\ ret.arg \in DOMAIN todos
    /\ deps # {}

----------------------------------------------------------------------------
\* Claims on add_to_queue and remove_from_queue

\* C17: add_to_queue on an unqueued todo with status pending or in_progress sets
\* its queue to 1 + the largest queue value among the status-relevant queued
\* todos (1 when there is none) and changes no other todo; in a contiguous queue
\* of N todos that is position N + 1.
C17_AppendsAfterMax ==
    [][(/\ ret'.op = "add_to_queue"
        /\ ret'.id \in DOMAIN todos
        /\ todos[ret'.id].queue = 0
        /\ todos[ret'.id].status \in {PENDING, IN_PROGRESS})
       => LET Q == {i \in DOMAIN todos :
                      todos[i].queue > 0 /\ todos[i].status \in {PENDING, IN_PROGRESS}}
              current_max == IF Q = {} THEN 0 ELSE Max({todos[i].queue : i \in Q})
          IN  /\ todos' = [todos EXCEPT ![ret'.id].queue = current_max + 1]
              /\ Contiguous(todos) => todos'[ret'.id].queue = Cardinality(Q) + 1]_vars

\* add_to_queue has just put a todo behind a gap: its position is larger than
\* the number of queued todos
C17_Witness ==
    /\ ret.op = "add_to_queue"
    /\ ret.was = 0
    /\ ret.id \in queued_ids(todos)
    /\ todos[ret.id].queue = get_max_queue(todos)
    /\ todos[ret.id].queue > Cardinality(queued_ids(todos))

\* C19: add_to_queue on a todo whose status is completed or cancelled never
\* enqueues it: after the call its queue is 0, whatever it was before.
C19_RetiredNeverEnqueued ==
    [][(/\ ret'.op = "add_to_queue"
        /\ ret'.id \in DOMAIN todos
        /\ todos[ret'.id].status \in {COMPLETED, CANCELLED})
       => /\ ret'.id \in DOMAIN todos'
          /\ todos'[ret'.id].queue = 0
          /\ todos'[ret'.id].status = todos[ret'.id].status]_vars

\* add_to_queue has just run on a retired todo that carried a queue value, and
\* cleared it
C19_Witness ==
    /\ ret.op = "add_to_queue"
    /\ ret.was > 0
    /\ todos[ret.id].status \in Retired
    /\ todos[ret.id].queue = 0

\* C18: add_to_queue on a todo that already has queue > 0 leaves that todo's
\* position and every other todo unchanged, and a second add_to_queue call on
\* the same todo changes nothing the first call left.
C18_ReenqueueIdempotent ==
    [][(ret'.op = "add_to_queue" /\ ret'.id \in DOMAIN todos)
       => /\ todos[ret'.id].queue > 0 => todos' = todos
          /\ add_to_queue(todos', ret'.id) = todos']_vars

\* add_to_queue has just run on a todo that was already queued, with another
\* todo in the queue
C18_Witness ==
    /\ ret.op = "add_to_queue"
    /\ ret.was > 0
    /\ ret.id \in queued_ids(todos)
    /\ Cardinality(queued_ids(todos)) >= 2

\* C20: remove_from_queue on a queued todo sets its queue to 0 and normalizes:
\* the other status-relevant queued todos end at 1..N-1 in their previous
\* relative order, and nothing else changes.
C20_RemoveRenumbers ==
    [][(/\ ret'.op = "remove_from_queue"
        /\ ret'.id \in DOMAIN todos
        /\ todos[ret'.id].queue > 0)
       => LET rest == {i \in DOMAIN todos :
                        /\ i # ret'.id
                        /\ todos[i].queue > 0
                        /\ todos[i].status \in QUEUE_RELEVANT_STATUSES}
          IN  /\ DOMAIN todos' = DOMAIN todos
              /\ todos'[ret'.id] = [todos[ret'.id] EXCEPT !.queue = 0]
              /\ \A i \in DOMAIN todos \ (rest \cup {ret'.id}) : todos'[i] = todos[i]
              /\ \A i \in rest : todos'[i].status = todos[i].status
              /\ {todos'[i].queue : i \in rest} = 1..Cardinality(rest)
              /\ \A i, j \in rest :
                    todos[i].queue < todos[j].queue => todos'[i].queue < todos'[j].queue]_vars

\* the first of three queued todos has just been removed: the other two moved up
C20_Witness ==
    /\ ret.op = "remove_from_queue"
    /\ ret.id = 1
    /\ ret.was = 1
    /\ todos[1].queue = 0 /\ todos[1].status \in QUEUE_RELEVANT_STATUSES
    /\ todos[3].queue = 1 /\ todos[2].queue = 2

----------------------------------------------------------------------------
\* Claims on move_queue_up and move_queue_down

\* C21: in a contiguous queue, move_queue_up on the todo at position p > 1 leaves
\* it at p - 1 and the todo formerly at p - 1 at p, move_queue_down on the todo at
\* position p < N leaves it at p + 1 and the todo formerly at p + 1 at p, and
\* every other todo keeps its position.
C21_MoveSwapsAdjacent ==
    [][(/\ ret'.op \in {"move_queue_up", "move_queue_down"}
        /\ Contiguous(todos)
        /\ ret'.id \in queued_ids(todos))
       => LET p == todos[ret'.id].queue
              N == Cardinality(queued_ids(todos))
              at(q) == CHOOSE i \in queued_ids(todos) : todos[i].queue = q
          IN  /\ (ret'.op = "move_queue_up" /\ p > 1)
                    => todos' = [todos EXCEPT ![ret'.id].queue = p - 1,
                                              ![at(p - 1)].queue = p]
              /\ (ret'.op = "move_queue_down" /\ p < N)
                    => todos' = [todos EXCEPT ![ret'.id].queue = p + 1,
                                              ![at(p + 1)].queue = p]]_vars

\* the scenario A=1, B=2, C=3: move_queue_up(C) has just given the order A, C, B
C21_Witness ==
    /\ ret.op = "move_queue_up"
    /\ ret.id = 3
    /\ ret.was = 3
    /\ todos[1].queue = 1 /\ todos[3].queue = 2 /\ todos[2].queue = 3
    /\ get_queued_todos(todos, NoLimit, NoSize, NoSize) = <<1, 3, 2>>

\* C22: the boundary calls change no queue value: move_queue_up on the todo at
\* position 1, move_queue_down on the todo at the last position, move_queue_up or
\* move_queue_down on an unqueued todo, and remove_from_queue on an unqueued todo.
C22_BoundaryNoop ==
    [][(/\ ret'.id \in DOMAIN todos
        /\ \/ ret'.op = "move_queue_up" /\ todos[ret'.id].queue = 1
           \/ /\ ret'.op = "move_queue_down"
              /\ ret'.id \in queued_ids(todos)
              /\ todos[ret'.id].queue = get_max_queue(todos)
           \/ /\ ret'.op \in {"move_queue_up", "move_queue_down", "remove_from_queue"}
              /\ todos[ret'.id].queue = 0)
       => /\ DOMAIN todos' = DOMAIN todos
          /\ \A i \in DOMAIN todos : todos'[i].queue = todos[i].queue]_vars

----------------------------------------------------------------------------
\* Claims on the status lifecycle

\* C23: an update_todo that passes queue never leaves a positive queue value on
\* a todo whose resulting status is completed or cancelled: the stored queue is
\* 0 instead of the caller's value, also when the same update sets the status.
C23_QueueWriteForcedToZero ==
    [][(/\ ret'.op = "update_todo"
        /\ ret'.arg # UnsetQueue
        /\ ret'.id \in DOMAIN todos
        /\ todos'[ret'.id].status \in {COMPLETED, CANCELLED})
       => todos'[ret'.id].queue = 0]_vars

\* an update_todo that passed a positive queue value has just run on an unqueued
\* todo and left it retired with queue 0, beside a queued todo
C23_Witness ==
    /\ ret.op = "update_todo"
    /\ ret.arg > 0
    /\ ret.was = 0
    /\ ret.id \in DOMAIN todos
    /\ todos[ret.id].status \in Retired
    /\ todos[ret.id].queue = 0
    /\ queued_ids(todos) # {}

\* C24: create_todo stores queue = 0 unless the caller passes a positive queue
\* value and the initial status is pending or in_progress, and then it stores
\* that value; a todo created completed or cancelled has queue = 0.  No other
\* todo is changed.
C24_CreateQueue ==
    [][ret'.op = "create_todo"
       => /\ DOMAIN todos' = DOMAIN todos \cup {ret'.id}
          /\ ret'.id \notin DOMAIN todos
          /\ \A i \in DOMAIN todos : todos'[i] = todos[i]
          /\ todos'[ret'.id].queue =
                IF ret'.arg > 0 /\ todos'[ret'.id].status \in {PENDING, IN_PROGRESS}
                THEN ret'.arg ELSE 0]_vars

\* create_todo has just been called with a positive queue value and a retired
\* status, and stored queue 0
C24_Witness ==
    /\ ret.op = "create_todo"
    /\ ret.arg > 0
    /\ todos[ret.id].status \in Retired
    /\ todos[ret.id].queue = 0

\* C25: an update_todo that changes the status from completed or cancelled to
\* pending or in_progress without passing queue leaves the todo with queue = 0
\* and every other todo as it was.
C25_ReactivationStaysUnqueued ==
    [][(/\ ret'.op = "update_todo"
        /\ ret'.arg = UnsetQueue
        /\ ret'.id \in DOMAIN todos
        /\ todos[ret'.id].status \in {COMPLETED, CANCELLED}
        /\ todos'[ret'.id].status \in {PENDING, IN_PROGRESS})
       => /\ todos'[ret'.id].queue = 0
          /\ \A i \in DOMAIN todos \ {ret'.id} : todos'[i] = todos[i]]_vars

\* a retired todo has just been made active again beside two queued todos, and
\* stays out of the queue
C25_Witness ==
    /\ ret.op = "update_todo"
    /\ ret.had \in Retired
    /\ todos[ret.id].status \in QUEUE_RELEVANT_STATUSES
    /\ todos[ret.id].queue = 0
    /\ Cardinality(queued_ids(todos)) = 2

\* C26: update_todo with any status value, and each of add_to_queue,
\* remove_from_queue, move_queue_up and move_queue_down, leaves the set of
\* dependency rows as it was.
C26_EdgesUntouched ==
    [][ret'.op \in {"update_todo", "add_to_queue", "remove_from_queue",
                    "move_queue_up", "move_queue_down"}
       => deps' = deps]_vars

\* a queued todo that an edge references has just been retired by a status
\* update, and the edge is still stored
C26_Witness ==
    /\ ret.op = "update_todo"
    /\ ret.was > 0
    /\ ret.had \in QUEUE_RELEVANT_STATUSES
    /\ todos[ret.id].status \in Retired
    /\ \E r \in deps : r.todo_id = ret.id \/ r.depends_on_id = ret.id

----------------------------------------------------------------------------
\* Claims on delete_dependency

\* C27: delete_dependency(edge_id) deletes exactly the row with that id when
\* there is one, reports not-found and changes nothing when there is none, and
\* in both cases leaves every todo (its queue value and its status) as it was.
C27_DeleteExactlyOne ==
    [][ret'.op = "delete_dependency"
       => LET hit == {r \in deps : r.id = ret'.arg}
          IN  /\ hit # {} => (ret'.out = "True" /\ deps' = deps \ hit
                                /\ Cardinality(deps') = Cardinality(deps) - 1)
              /\ hit = {} => (ret'.out = "False" /\ deps' = deps)
              /\ todos' = todos]_vars

\* one of two stored rows has just been deleted and the other is still there
C27_Witness ==
    /\ ret.op = "delete_dependency"
    /\ ret.out = "True"
    /\ Cardinality(deps) = 1
    /\ \A r \in deps : r.id # ret.arg

----------------------------------------------------------------------------
\* Claims on get_queued_todos

\* C28: get_queued_todos returns only todos with queue > 0 and status pending or
\* in_progress, ordered by queue ascending and then id ascending; when min_size
\* or max_size is passed, todos without task_size are left out and the others
\* satisfy the bounds passed; with a limit L the result is the first L elements
\* of that ordered, filtered list.
C28_GetQueued ==
    (ret.op = "get_queued_todos" /\ ~api_get_queued_todos_rejects(ret.arg[2], ret.arg[3]))
        => LET limit == ret.arg[1]
               min_size == ret.arg[2]
               max_size == ret.arg[3]
               sized == min_size # NoSize \/ max_size # NoSize
               \* the todos the listing must select
               want == {i \in DOMAIN todos :
                          /\ todos[i].queue > 0
                          /\ todos[i].status \in {PENDING, IN_PROGRESS}
                          /\ sized => todos[i].task_size # NoSize
                          /\ min_size # NoSize => (todos[i].task_size # NoSize /\ todos[i].task_size >= min_size)
                          /\ max_size # NoSize => (todos[i].task_size # NoSize /\ todos[i].task_size <= max_size)}
               ahead(i) == {j \in want : \/ todos[j].queue < todos[i].queue
                                          \/ (todos[j].queue = todos[i].queue /\ j < i)}
               n == IF limit = NoLimit \/ limit > Cardinality(want)
                    THEN Cardinality(want) ELSE limit
           IN  /\ Len(ret.out) = n
               /\ \A k \in 1..n : ret.out[k] \in want /\ Cardinality(ahead(ret.out[k])) = k - 1

\* a listing with a size bound and a limit has just returned the second todo
\* only: it is ahead of the first in the queue, and the limit cut the first off
C28_Witness ==
    /\ ret.op = "get_queued_todos"
    /\ ret.arg[1] = 1
    /\ ret.arg[2] # NoSize
    /\ ~api_get_queued_todos_rejects(ret.arg[2], ret.arg[3])
    /\ ret.out = <<2>>
    /\ todos[1].queue > todos[2].queue
    /\ todos[1].status \in QUEUE_RELEVANT_STATUSES
    /\ todos[1].task_size >= ret.arg[2]

----------------------------------------------------------------------------
\* Claims on the two commits of a call that takes a todo out of the queue

\* C29: when the store fails at any point of a remove_from_queue call, or of an
\* update_todo call that takes a todo out of the queue, the store is left exactly
\* as it was before the call: never with the queue value of the todo cleared and
\* the other positions not renumbered.  The calls are those on a queued todo:
\* every remove_from_queue, and the update_todo after which the todo is
\* unqueued.
C29_FailureLeavesStore ==
    (/\ ret.out = "OperationalError"
     /\ ret.arg[ret.id].queue > 0
     /\ \/ ret.op = "remove_from_queue"
        \/ ret.op = "update_todo" /\ todos[ret.id].queue = 0)
        => todos = ret.arg

\* C30: no caller reads the queue of a store in which a remove_from_queue call,
\* or an update_todo call that takes a todo out of the queue, has cleared the
\* queue value of its todo and has not yet renumbered the others: every listing
\* shows the positions 1..N.
C30_NoTornRead ==
    ret.op = "get_queued_todos"
        => \A k \in 1..Len(ret.out) : ret.out[k][2] = k

----------------------------------------------------------------------------
\* Claims on the traversal of _would_create_cycle

NoRepeat(q) == \A a, b \in 1..Len(q) : a # b => q[a] # q[b]

\* C31: the traversal of _would_create_cycle ends on every table of dependency
\* rows, a table holding a cycle or rows to deleted todos included, and queries
\* the rows of each todo id at most once.
C31_TraversalTerminates ==
    /\ [](\A c \in Solo : pc[c] = "loop" => NoRepeat(loc[c].upd.expanded))
    /\ [](ret.op = "_would_create_cycle" => NoRepeat(ret.arg))
    /\ \A c \in Solo : (pc[c] = "loop") ~> (pc[c] = "idle")

\* a traversal has returned False after going round a cycle of the table
C31_Witness ==
    /\ ret.op = "_would_create_cycle"
    /\ ret.out = "False"
    /\ Len(ret.arg) >= 2
    /\ \E p \in Paths(Edges(deps)) : p[1] = p[2] /\ p[1] = ret.arg[1]

----------------------------------------------------------------------------
\* Claims on update_todos_batch

\* the store after update_todo has run for the items from k on that name a todo
RECURSIVE UpdatedInTurn(_, _, _)
UpdatedInTurn(T, items, k) ==
    IF k > Len(items) THEN T
    ELSE IF items[k].todo_id \in DOMAIN T
    THEN UpdatedInTurn(update_todo(T, items[k].todo_id, items[k].status, items[k].queue),
                       items, k + 1)
    ELSE UpdatedInTurn(T, items, k + 1)

\* C32 as stated: update_todos_batch handles its items one by one in list
\* order: every item naming an existing todo is applied as update_todo applies
\* it and is counted in updated_count; an item without todo_id or naming no
\* todo is listed in errors and neither stops nor undoes the others;
\* updated_count + error_count is the number of items.
C32_BatchItemsIndependent ==
    ret.op = "update_todos_batch"
        => LET items == ret.arg
               before == ret.was
               named == {k \in 1..Len(items) : items[k].todo_id \in DOMAIN before}
               unnamed == (1..Len(items)) \ named
               out == ret.out
           IN  /\ todos = UpdatedInTurn(before, items, 1)
               /\ out.updated_count = Cardinality(named)
               /\ out.error_count = Cardinality(unnamed)
               /\ out.updated_count + out.error_count = Len(items)
               /\ Len(out.todos) = out.updated_count
               /\ Len(out.errors) = out.error_count
               /\ \A k \in named :
                     out.todos[Cardinality({j \in named : j <= k})] = items[k].todo_id
               /\ \A k \in unnamed :
                     LET e == out.errors[Cardinality({j \in unnamed : j <= k})]
                     IN  e[1] = k - 1 /\ e[2] = items[k].todo_id

\* an item whose values the update takes: a status of TodoStatus or none, a
\* queue value of 0 or more or none
Accepted(item) ==
    /\ item.status \in TodoStatus \cup {Unset}
    /\ item.queue = UnsetQueue \/ item.queue >= 0

\* the store after update_todo has run for the items from k on that name a todo
\* and pass values the update takes
RECURSIVE AcceptedInTurn(_, _, _)
AcceptedInTurn(T, items, k) ==
    IF k > Len(items) THEN T
    ELSE IF items[k].todo_id \in DOMAIN T /\ Accepted(items[k])
    THEN AcceptedInTurn(update_todo(T, items[k].todo_id, items[k].status, items[k].queue),
                        items, k + 1)
    ELSE AcceptedInTurn(T, items, k + 1)

\* C32 amended: update_todos_batch handles its items one by one in list order:
\* an item naming an existing todo and passing values the update takes is
\* applied as update_todo applies it and is counted in updated_count; every
\* other item (no todo_id, a todo_id naming no todo, a refused status or queue
\* value) is listed in errors with its index and todo_id, changes nothing and
\* neither stops nor undoes the others; updated_count + error_count is the
\* number of items.
C32_BatchItemsAccepted ==
    ret.op = "update_todos_batch"
        => LET items == ret.arg
               before == ret.was
               applied == {k \in 1..Len(items) : /\ items[k].todo_id \in DOMAIN before
                                                 /\ Accepted(items[k])}
               refused == (1..Len(items)) \ applied
               out == ret.out
           IN  /\ todos = AcceptedInTurn(before, items, 1)
               /\ out.updated_count = Cardinality(applied)
               /\ out.error_count = Cardinality(refused)
               /\ out.updated_count + out.error_count = Len(items)
               /\ Len(out.todos) = out.updated_count
               /\ Len(out.errors) = out.error_count
               /\ \A k \in applied :
                     out.todos[Cardinality({j \in applied : j <= k})] = items[k].todo_id
               /\ \A k \in refused :
                     LET e == out.errors[Cardinality({j \in refused : j <= k})]
                     IN  e[1] = k - 1 /\ e[2] = items[k].todo_id

\* a batch whose first item passed a refused status for an existing todo has
\* left that todo as it was, reported the item in errors, and retired a
\* queued todo with its second item
C32_Witness ==
    /\ ret.op = "update_todos_batch"
    /\ Len(ret.arg) = 2
    /\ ret.arg[1].todo_id \in DOMAIN todos
    /\ ret.arg[1].status = BadStatus
    /\ ret.arg[2].todo_id \in DOMAIN todos
    /\ ret.arg[2].todo_id # ret.arg[1].todo_id
    /\ ret.arg[2].status = COMPLETED
    /\ ret.out.updated_count = 1
    /\ ret.out.error_count = 1
    /\ ret.out.errors[1] = <<0, ret.arg[1].todo_id, "ValueError">>
    /\ todos[ret.arg[1].todo_id].status = ret.was[ret.arg[1].todo_id].status
    /\ ret.was[ret.arg[2].todo_id].queue > 0
    /\ todos[ret.arg[2].todo_id].status = COMPLETED

----------------------------------------------------------------------------
\* Claims on the lazy initialisation of module db

\* C33: before the first use engine and DB_PATH are unset; the first
\* get_db_path() call that returns creates the engine and sets DB_PATH to the
\* value of TODOTRACKER_DB_PATH when the variable is set; every later call
\* leaves the same engine and the same DB_PATH in place.
C33_LazyInitOnce ==
    /\ [](\A c \in Solo :
            ret.op = "none" => loc[c].engine = NoEngine /\ loc[c].DB_PATH = NoPath)
    /\ [][\A c \in Solo :
            /\ (/\ ret'.op = "get_db_path"
                /\ loc[c].DB_PATH = NoPath
                /\ ret'.out \notin Exceptions)
                  => /\ loc'[c].engine # NoEngine
                     /\ loc'[c].DB_PATH # NoPath
                     /\ ret'.out = loc'[c].DB_PATH
                     /\ loc[c].environ # NoPath => loc'[c].DB_PATH = loc[c].environ
            /\ loc[c].engine # NoEngine => loc'[c].engine = loc[c].engine
            /\ loc[c].DB_PATH # NoPath
                  => /\ loc'[c].DB_PATH = loc[c].DB_PATH
                     /\ ret'.op = "get_db_path" => ret'.out = loc[c].DB_PATH
       ]_vars

----------------------------------------------------------------------------
\* Claims on move_queue_up and move_queue_down in a store found out of order

\* the queued todos of T and U are the same and stand in the same order
SameQueueOrder(T, U) ==
    /\ DOMAIN U = DOMAIN T
    /\ queued_ids(U) = queued_ids(T)
    /\ \A a, b \in queued_ids(T) : queue_before(T, a, b) <=> queue_before(U, a, b)

\* C34: move_queue_up on a queued, status-relevant todo below position 1, or
\* move_queue_down on a queued, status-relevant todo, when no status-relevant
\* todo holds the adjacent position, swaps nothing: the queue is renumbered to
\* 1..N and the queued todos keep their order by (queue, id).
C34_GapNormalizes ==
    [][(/\ ret'.id \in queued_ids(todos)
        /\ \/ /\ ret'.op = "move_queue_up"
              /\ todos[ret'.id].queue > 1
              /\ rows_at(todos, todos[ret'.id].queue - 1) = {}
           \/ /\ ret'.op = "move_queue_down"
              /\ rows_at(todos, todos[ret'.id].queue + 1) = {})
       => /\ Contiguous(todos')
          /\ SameQueueOrder(todos, todos')
          /\ \A i \in DOMAIN todos :
                /\ todos'[i].status = todos[i].status
                /\ i \notin queued_ids(todos) => todos'[i].queue = todos[i].queue]_vars

\* move_queue_up has just brought a todo from position 2 to position 1 by
\* renumbering: position 1 is held by a retired todo only
C34_Witness ==
    /\ ret.op = "move_queue_up"
    /\ ret.was = 2
    /\ ret.id \in queued_ids(todos)
    /\ todos[ret.id].queue = 1
    /\ \E j \in DOMAIN todos : todos[j].status \in Retired /\ todos[j].queue = 1

\* C35: move_queue_up or move_queue_down on a todo whose status is completed or
\* cancelled and whose queue value is positive swaps nothing, leaves that todo
\* with queue = 0 and leaves the status-relevant queued todos on 1..N.
C35_RetiredMoveClears ==
    [][(/\ ret'.op \in {"move_queue_up", "move_queue_down"}
        /\ ret'.id \in DOMAIN todos
        /\ todos[ret'.id].status \in Retired
        /\ todos[ret'.id].queue > 0)
       => /\ todos'[ret'.id].queue = 0
          /\ Contiguous(todos')
          /\ SameQueueOrder(todos, todos')]_vars

----------------------------------------------------------------------------
\* Claims relating two operations

\* C36: update_todo passing queue = 0 on a queued todo whose status is pending
\* or in_progress leaves every todo with the queue value remove_from_queue on
\* that todo leaves: the todo at 0, the other queued todos on 1..N-1 in the
\* order they had.
C36_UpdateQueueZeroIsRemove ==
    [][(/\ ret'.op = "update_todo"
        /\ ret'.arg = 0
        /\ ret'.id \in queued_ids(todos))
       => /\ DOMAIN todos' = DOMAIN todos
          /\ \A i \in DOMAIN todos :
                todos'[i].queue = remove_from_queue(todos, ret'.id)[i].queue
          /\ todos'[ret'.id].queue = 0
          /\ {todos'[i].queue : i \in queued_ids(todos) \ {ret'.id}}
                = 1..(Cardinality(queued_ids(todos)) - 1)
          /\ \A a, b \in queued_ids(todos) \ {ret'.id} :
                queue_before(todos, a, b) <=> queue_before(todos', a, b)]_vars

\* update_todo passing queue = 0 has just taken the todo at position 1 out of
\* a queue of three: the two todos behind it stand at 1 and 2, the one with the
\* larger id first, as they stood before
C36_Witness ==
    /\ ret.op = "update_todo"
    /\ ret.arg = 0
    /\ ret.was = 1
    /\ ret.id \in DOMAIN todos
    /\ todos[ret.id].queue = 0
    /\ is_queue_relevant(todos[ret.id].status)
    /\ \E a, b \in queued_ids(todos) :
            a > b /\ todos[a].queue = 1 /\ todos[b].queue = 2

\* C37: in a contiguous queue, move_queue_up followed by move_queue_down on the
\* same todo, when the todo is not at position 1, gives every todo the queue
\* value it had before the two calls; so does move_queue_down followed by
\* move_queue_up when the todo is not at the last position.
C37_MoveThereAndBack ==
    /\ (/\ ret.op = "move_queue_down" /\ ret.had = "move_queue_up"
        /\ ret.id \in queued_ids(ret.arg)
        /\ ret.arg[ret.id].queue > 1)
          => \A i \in DOMAIN todos : todos[i].queue = ret.arg[i].queue
    /\ (/\ ret.op = "move_queue_up" /\ ret.had = "move_queue_down"
        /\ ret.id \in queued_ids(ret.arg)
        /\ ret.arg[ret.id].queue < get_max_queue(ret.arg))
          => \A i \in DOMAIN todos : todos[i].queue = ret.arg[i].queue

\* the todo that stood at position 2 of three has been moved up and then down
\* again
C37_Witness ==
    /\ ret.op = "move_queue_down"
    /\ ret.had = "move_queue_up"
    /\ ret.was = 2
    /\ ret.id \in queued_ids(ret.arg)
    /\ Cardinality(queued_ids(ret.arg)) = 3
    /\ todos[ret.id].queue = 2

\* C38: in every store, one with rows whose prerequisite todo is gone included,
\* search_todos with dependency_status = ready returns a todo exactly when
\* check_dependencies_met is true for it, and with dependency_status = blocked
\* exactly when it is false.
C38_SearchAgreesWithReadiness ==
    /\ (ret.op = "search_todos" /\ ret.arg = "ready")
          => ret.out = {i \in DOMAIN todos : check_dependencies_met(todos, deps, i)}
    /\ (ret.op = "search_todos" /\ ret.arg = "blocked")
          => ret.out = {i \in DOMAIN todos : ~check_dependencies_met(todos, deps, i)}

\* a search for ready todos has just returned a todo whose only prerequisite
\* row names a missing todo, and left out a todo with a pending prerequisite
C38_Witness ==
    /\ ret.op = "search_todos"
    /\ ret.arg = "ready"
    /\ \E i \in ret.out : \E r \in deps :
            r.todo_id = i /\ r.depends_on_id \notin DOMAIN todos
    /\ \E j \in DOMAIN todos \ ret.out : \E r \in deps :
            /\ r.todo_id = j /\ r.depends_on_id \in DOMAIN todos
            /\ todos[r.depends_on_id].status = PENDING

----------------------------------------------------------------------------
\* Claims on execute_queue_next

\* C39: execute_queue_next(count, mark_in_progress = true) sets the status
\* in_progress on exactly the first count todos in queue order, changes no queue
\* value and returns those todos in that order; with mark_in_progress = false
\* it changes nothing.
C39_ExecuteMarksFirst ==
    ret.op = "execute_queue_next"
        => LET before == ret.was
               count == ret.arg[1]
               mark == ret.arg[2]
               ahead(i) == {j \in queued_ids(before) : j # i /\ queue_before(before, j, i)}
               first == {i \in queued_ids(before) : Cardinality(ahead(i)) < count}
           IN  /\ DOMAIN todos = DOMAIN before
               /\ \A i \in DOMAIN before :
                     /\ todos[i].queue = before[i].queue
                     /\ todos[i].status = IF mark /\ i \in first THEN IN_PROGRESS
                                          ELSE before[i].status
               /\ ~mark => todos = before
               /\ Len(ret.out.todos) = Cardinality(first)
               /\ ret.out.count = Cardinality(first)
               /\ \A i \in first :
                     ret.out.todos[Cardinality(ahead(i)) + 1] = <<i, todos[i].status>>
               /\ mark => /\ Len(ret.out.marked_in_progress) = Cardinality(first)
                          /\ \A i \in first :
                                ret.out.marked_in_progress[Cardinality(ahead(i)) + 1] = i

\* execute_queue_next(2, true) has just marked the two pending todos at the
\* head of a queue of three and left the third pending
C39_Witness ==
    /\ ret.op = "execute_queue_next"
    /\ ret.arg = <<2, TRUE>>
    /\ Cardinality(queued_ids(ret.was)) = 3
    /\ \A i \in DOMAIN ret.was : ret.was[i].status = PENDING
    /\ Len(ret.out.todos) = 2
    /\ \E i \in DOMAIN todos : todos[i].queue > 0 /\ todos[i].status = PENDING
    /\ Cardinality({i \in DOMAIN todos : todos[i].status = IN_PROGRESS}) = 2

====
